---------------------------- MODULE Spec2Model ----------------------------
(***************************************************************************)
(* A model of go-netdicom's DICOM Upper Layer PDU codec (src/pdu/pdu.go),  *)
(* of the DIMSE command codec and of the C-ECHO exchange between a         *)
(* ServiceUser and a ServiceProvider.                                      *)
(*                                                                         *)
(* Bytes are naturals in 0..255, byte strings and Go strings are sequences *)
(* of bytes.  A Go nil slice and an empty slice are both <<>>.             *)
(*                                                                         *)
(* The codec runs on the dicomio Reader and Writer of the dicom library.   *)
(* The Writer appends bytes; the Reader keeps a count of the bytes read, a *)
(* limit and a stack of outer limits, and never returns bytes beyond the   *)
(* limit.  pdu.go drops most of the errors these calls return, so what a   *)
(* failed call leaves behind (nothing consumed, a zero value) is part of   *)
(* the model.                                                              *)
(***************************************************************************)
EXTENDS Integers, Sequences, FiniteSets, TLC

VARIABLES
    \* the PDU codec scenario
    phase,        \* position of the codec scenario
    pduIn,        \* the PDU value handed to EncodePDU
    wire,         \* the bytes on the connection
    tampered,     \* TRUE once the bytes are no longer EncodePDU's output
    maxPDUSize,   \* the maxPDUSize argument of the last ReadPDU
    res,          \* what the last ReadPDU returned
    reenc,        \* EncodePDU of the PDU that ReadPDU returned
    \* the DIMSE round trip
    dimsePhase,   \* position of the round trip
    dimseIn,      \* the message handed to EncodeMessage
    dimseBytes,   \* the bytes EncodeMessage wrote
    dimseSet,     \* the data set ReadDataSetInBytes parsed
    dimseOut,     \* the message ReadMessage returned
    \* the C-ECHO exchange
    suState,      \* where the ServiceUser is
    spState,      \* where the provider's side of the association is
    toProvider,   \* messages on their way to the provider
    toUser,       \* messages on their way to the user
    nEchoRequests,\* runs of the provider's C-ECHO handler
    oldCount,     \* nEchoRequests when the last CEcho() was called
    calls,        \* CEcho() calls made
    handlerStatus,\* the statuses the handler returned, in order
    cechoErr,     \* what the CEcho() calls returned, in order
    \* the C-STORE exchange
    suStatus,     \* ServiceUser.status
    suPc,         \* where the test that drives the ServiceUser is
    userSta,      \* the state of the user's state machine
    serverUp,     \* TRUE when a TCP connection to the address can be made
    faults,       \* the fault injector of the user's state machine
    cm,           \* the user's context manager after the handshake
    storeDs,      \* the data set handed to CStore
    downcallCh,   \* the events sent on the downcall channel, in order
    smTaken,      \* how many of them the state machine has taken
    upcallCh,     \* the upcall channel of the command: its events, closed
    received,     \* events runCStoreOnAssociation took from upcallCh
    socket,       \* the PDUs the user has written to the connection
    cstoreStatus, \* the status the provider's C-STORE handler returns
    cstoreData,   \* the data the provider's C-STORE handler received
    cstoreErr,    \* what CStore returned
    \* the C-FIND exchange
    findPc,       \* where the client's CFind is
    findLeft,     \* the results the provider's handler has still to emit
    findEmitted,  \* the results the handler has emitted, in order
    findCh,       \* the handler's result channel: its results, closed
    findWire,     \* the C-FIND responses on their way to the user
    findStream,   \* the channel CFind returned: what it was sent, closed
    namesFound,   \* the names TestFind has collected from that channel
    \* the association state machine
    smCurrent,    \* the current state of the machine
    smFrom,       \* the state the last event was handled in
    smEvent,      \* the last event handled
    smAction,     \* the action the table gave for it
    smSent,       \* the PDU that action sent
    smTimer,      \* the ARTIM timer: "stopped" or "armed"
    \* outbound fragmentation and reassembly
    fragM,        \* the peer's maximum PDU size
    fragCtx,      \* the context ID of the message
    fragCmd,      \* the command bytes handed to the machine
    fragData,     \* the data bytes handed to it, <<>> for a message without
    fragPc,       \* "idle", "sending" or "aborted"
    fragQueue,    \* the P-DATA-TF PDUs made and not yet written
    fragWire,     \* the encoded PDUs written to the connection, in order
    fragRead,     \* how many of them the peer's reader has read
    fragSeen,     \* the PDVs the peer has decoded, in order
    fragBuf,      \* the peer's rolling buffers, per context ID
    fragUp,       \* the streams the peer has delivered upward, in order
    \* presentation-context negotiation
    ctxOffered,   \* how many abstract syntaxes the requester offers
    ctxNextID,    \* the requester's running context ID
    ctxAssigned,  \* the IDs assigned so far, in the order of the list
    ctxAnswered,  \* the IDs of the acceptor's answers, in order
    \* the transfer syntax helpers
    tsOffered,    \* the transfer syntax UIDs handed to CanonicalTransferSyntaxUID
    tsCanonical,  \* its results, in order
    tsAgain,      \* its results when applied to its own successful results
    tsParsed,     \* the results of ParseTransferSyntaxUID on the same UIDs
    \* reassembly of interleaved streams
    asmPending,   \* per stream, the PDVs the peer has still to send
    asmSent,      \* the PDVs the peer has sent, in order
    \* release of an association by both sides
    relState,     \* per side, the state of its machine
    relInbox,     \* per side, the PDUs on their way to it, in order
    relWants,     \* the sides whose user is about to make its request
    relClosed,    \* the sides that have closed their end of the connection
    relEof,       \* the sides whose reader has seen the connection closed
    relLog,       \* what the machines did, in order: side, event, action, PDU sent
    \* the sub-item scenario
    itemIn,       \* the sub-items on the wire, each as [Type, Length, Value]
    itemOut,      \* the result of decodeSubItem on their bytes, or <<>>
    itemRes,      \* the result of ReadPDU on their A-ASSOCIATE-RQ, or <<>>
    itemWire,     \* a presentation context item and its encoding, or <<>>
    \* the PDV scenario
    pdvIn,        \* the PDVs of a P-DATA-TF payload, as [Length, Bytes]
    pdvD,         \* the reader of the payload in the loop of decodePDataTf
    pdvRead,      \* what each ReadPresentationDataValueItem returned
    \* the size scenario
    sizeItem,     \* the sub-item handed to Write
    sizeWire      \* the bytes Write wrote for it, or <<>>

codecVars == <<phase, pduIn, wire, tampered, maxPDUSize, res, reenc>>

dimseVars == <<dimsePhase, dimseIn, dimseBytes, dimseSet, dimseOut>>

echoVars ==
    <<suState, spState, toProvider, toUser, nEchoRequests, oldCount, calls,
      handlerStatus, cechoErr>>

storeVars ==
    <<suStatus, suPc, userSta, serverUp, faults, cm, storeDs, downcallCh,
      smTaken, upcallCh, received, socket, cstoreStatus, cstoreData, cstoreErr>>

findVars ==
    <<findPc, findLeft, findEmitted, findCh, findWire, findStream, namesFound>>

smVars == <<smCurrent, smFrom, smEvent, smAction, smSent, smTimer>>

fragVars ==
    <<fragM, fragCtx, fragCmd, fragData, fragPc, fragQueue, fragWire,
      fragRead, fragSeen, fragBuf, fragUp>>

ctxVars == <<ctxOffered, ctxNextID, ctxAssigned, ctxAnswered>>

tsVars == <<tsOffered, tsCanonical, tsAgain, tsParsed>>

asmVars == <<asmPending, asmSent>>

relVars == <<relState, relInbox, relWants, relClosed, relEof, relLog>>

itemVars == <<itemIn, itemOut, itemRes, itemWire>>

pdvVars == <<pdvIn, pdvD, pdvRead>>

sizeVars == <<sizeItem, sizeWire>>

\* The variables of the scenarios of the service API and the state machine.
restVars ==
    <<storeVars, findVars, smVars, fragVars, ctxVars, tsVars, asmVars,
      relVars, itemVars, pdvVars, sizeVars>>

\* What the actions of one scenario leave alone.
otherThanStore ==
    <<codecVars, dimseVars, echoVars, findVars, smVars, fragVars, ctxVars,
      tsVars, asmVars, relVars, itemVars, pdvVars, sizeVars>>

otherThanFind ==
    <<codecVars, dimseVars, echoVars, storeVars, smVars, fragVars,
      ctxVars, tsVars, asmVars, relVars, itemVars, pdvVars, sizeVars>>

otherThanSm ==
    <<codecVars, dimseVars, echoVars, storeVars, findVars, fragVars,
      ctxVars, tsVars, asmVars, relVars, itemVars, pdvVars, sizeVars>>

otherThanFrag ==
    <<codecVars, dimseVars, echoVars, storeVars, findVars, smVars,
      ctxVars, tsVars, asmVars, relVars, itemVars, pdvVars, sizeVars>>

otherThanCtx ==
    <<codecVars, dimseVars, echoVars, storeVars, findVars, smVars,
      fragVars, tsVars, asmVars, relVars, itemVars, pdvVars, sizeVars>>

otherThanTs ==
    <<codecVars, dimseVars, echoVars, storeVars, findVars, smVars,
      fragVars, ctxVars, asmVars, relVars, itemVars, pdvVars, sizeVars>>

otherThanAsm ==
    <<codecVars, dimseVars, echoVars, storeVars, findVars, smVars,
      fragVars, ctxVars, tsVars, relVars, itemVars, pdvVars, sizeVars>>

otherThanRel ==
    <<codecVars, dimseVars, echoVars, storeVars, findVars, smVars,
      fragVars, ctxVars, tsVars, asmVars, itemVars, pdvVars, sizeVars>>

otherThanItem ==
    <<codecVars, dimseVars, echoVars, storeVars, findVars, smVars,
      fragVars, ctxVars, tsVars, asmVars, relVars, pdvVars, sizeVars>>

otherThanPdv ==
    <<codecVars, dimseVars, echoVars, storeVars, findVars, smVars,
      fragVars, ctxVars, tsVars, asmVars, relVars, itemVars, sizeVars>>

otherThanSize ==
    <<codecVars, dimseVars, echoVars, storeVars, findVars, smVars,
      fragVars, ctxVars, tsVars, asmVars, relVars, itemVars, pdvVars>>

vars == <<codecVars, dimseVars, echoVars, restVars>>

-----------------------------------------------------------------------------
(* Small helpers *)

Min(a, b) == IF a < b THEN a ELSE b

\* Statement sequencing: r is what the statement before produced (with the
\* reader it left, on the reading side), K is the rest of the function body.
Then(r, K(_)) == K(r)

Spaces(n) == [i \in 1..n |-> 32]

Zeros(n) == [i \in 1..n |-> 0]

\* binary.BigEndian.PutUint16 / Writer.WriteUInt16 of a value below 2^16.
U16BE(n) == <<n \div 256, n % 256>>

\* binary.BigEndian.PutUint32 / Writer.WriteUInt32 of a value below 2^31.
U32BE(n) == <<n \div 16777216, (n \div 65536) % 256, (n \div 256) % 256, n % 256>>

\* Go's uint16(x) conversion of a non-negative int.
Uint16(n) == n % 65536

-----------------------------------------------------------------------------
(* PDU types and sub-item types *)

TypeAAssociateRq == 1
TypeAAssociateAc == 2
TypeAAssociateRj == 3
TypePDataTf == 4
TypeAReleaseRq == 5
TypeAReleaseRp == 6
TypeAAbort == 7

ItemTypeApplicationContext == 16
ItemTypePresentationContextRequest == 32
ItemTypePresentationContextResponse == 33
ItemTypeAbstractSyntax == 48
ItemTypeTransferSyntax == 64
ItemTypeUserInformation == 80
ItemTypeUserInformationMaximumLength == 81
ItemTypeImplementationClassUID == 82
ItemTypeAsynchronousOperationsWindow == 83
ItemTypeRoleSelection == 84
ItemTypeImplementationVersionName == 85

\* A nil SubItem (decodeSubItem's "return nil") and a nil PDU interface.
NilItem == [kind |-> "nil"]

NilPDU == [kind |-> "nil"]

\* decodeAAbort's "return nil": a nil *AAbort stored in the PDU interface,
\* which compares unequal to nil.
NilAAbort == [kind |-> "nilAAbort"]

-----------------------------------------------------------------------------
(* The writer side *)

encodeSubItemHeader(itemType, length) == <<itemType, 0>> \o U16BE(length)

encodeSubItemWithName(itemType, name) ==
    encodeSubItemHeader(itemType, Uint16(Len(name))) \o name

RECURSIVE SubItem_Write(_)
RECURSIVE WriteItems(_)

\* for _, s := range v.Items { s.Write(e) }
WriteItems(items) ==
    IF items = <<>> THEN <<>>
    ELSE SubItem_Write(Head(items)) \o WriteItems(Tail(items))

UserInformationItem_Write(v) ==
    Then(WriteItems(v.Items), LAMBDA itemBytes :
        encodeSubItemHeader(ItemTypeUserInformation, Uint16(Len(itemBytes)))
            \o itemBytes)

UserInformationMaximumLengthItem_Write(v) ==
    encodeSubItemHeader(ItemTypeUserInformationMaximumLength, 4)
        \o U32BE(v.MaximumLengthReceived)

AsynchronousOperationsWindowSubItem_Write(v) ==
    encodeSubItemHeader(ItemTypeAsynchronousOperationsWindow, 2 * 2)
        \o U16BE(v.MaxOpsInvoked) \o U16BE(v.MaxOpsPerformed)

RoleSelectionSubItem_Write(v) ==
    encodeSubItemHeader(ItemTypeRoleSelection,
                        Uint16(2 + Len(v.SOPClassUID) + 1 * 2))
        \o U16BE(Uint16(Len(v.SOPClassUID))) \o v.SOPClassUID
        \o <<v.SCURole, v.SCPRole>>

SubItemUnsupported_Write(item) ==
    encodeSubItemHeader(item.Type, Uint16(Len(item.Data))) \o item.Data

\* The Result field is not written: three zero bytes follow the context ID.
PresentationContextItem_Write(v) ==
    Then(WriteItems(v.Items), LAMBDA itemBytes :
        encodeSubItemHeader(v.Type, Uint16(4 + Len(itemBytes)))
            \o <<v.ContextID>> \o Zeros(3) \o itemBytes)

\* The dynamic dispatch of SubItem.Write.
SubItem_Write(v) ==
    CASE v.kind = "ApplicationContext" ->
            encodeSubItemWithName(ItemTypeApplicationContext, v.Name)
      [] v.kind = "AbstractSyntax" ->
            encodeSubItemWithName(ItemTypeAbstractSyntax, v.Name)
      [] v.kind = "TransferSyntax" ->
            encodeSubItemWithName(ItemTypeTransferSyntax, v.Name)
      [] v.kind = "ImplementationClassUID" ->
            encodeSubItemWithName(ItemTypeImplementationClassUID, v.Name)
      [] v.kind = "ImplementationVersionName" ->
            encodeSubItemWithName(ItemTypeImplementationVersionName, v.Name)
      [] v.kind = "PresentationContext" -> PresentationContextItem_Write(v)
      [] v.kind = "UserInformation" -> UserInformationItem_Write(v)
      [] v.kind = "MaximumLength" -> UserInformationMaximumLengthItem_Write(v)
      [] v.kind = "AsynchronousOperationsWindow" ->
            AsynchronousOperationsWindowSubItem_Write(v)
      [] v.kind = "RoleSelection" -> RoleSelectionSubItem_Write(v)
      [] v.kind = "Unsupported" -> SubItemUnsupported_Write(v)

RECURSIVE ItemsWritePanic(_)

\* Write panics on a PresentationContextItem whose Type is neither 0x20 nor
\* 0x21, and a call of Write through a nil SubItem or on a nil
\* *AsynchronousOperationsWindowSubItem is a nil dereference.
SubItemWritePanics(v) ==
    CASE v.kind \in {"nil", "nilAsynchronousOperationsWindow"} -> TRUE
      [] v.kind = "PresentationContext" ->
            \/ v.Type \notin {ItemTypePresentationContextRequest,
                              ItemTypePresentationContextResponse}
            \/ ItemsWritePanic(v.Items)
      [] v.kind = "UserInformation" -> ItemsWritePanic(v.Items)
      [] OTHER -> FALSE

ItemsWritePanic(items) ==
    IF items = <<>> THEN FALSE
    ELSE SubItemWritePanics(Head(items)) \/ ItemsWritePanic(Tail(items))

\* fillString without the padding: the string as it is.
fillString_NoPadding(v, length) ==
    IF Len(v) > length THEN SubSeq(v, 1, 16) ELSE v

\* fillString pads the string with " " up to the given length.
fillString(v, length) ==
    IF Len(v) > length THEN SubSeq(v, 1, 16)
    ELSE v \o Spaces(length - Len(v))

AAssociate_WritePayload(pdu) ==
    U16BE(pdu.ProtocolVersion) \o Zeros(2)
        \o fillString(pdu.CalledAETitle, 16)
        \o fillString(pdu.CallingAETitle, 16)
        \o Zeros(8 * 4)
        \o WriteItems(pdu.Items)

AAssociateRj_WritePayload(pdu) == <<0, pdu.Result, pdu.Source, pdu.Reason>>

AReleaseRq_WritePayload == Zeros(4)

AReleaseRp_WritePayload == Zeros(4)

AAbort_WritePayload(pdu) == <<0, 0, pdu.Source, pdu.Reason>>

\* PresentationDataValueItem.Write without the last-fragment bit.
PresentationDataValueItem_Write_NoLastBit(v) ==
    U32BE(2 + Len(v.Value))
        \o <<v.ContextID, (IF v.Command THEN 1 ELSE 0)>>
        \o v.Value

PresentationDataValueItem_Write(v) ==
    U32BE(2 + Len(v.Value))
        \o <<v.ContextID, (IF v.Command THEN 1 ELSE 0) + (IF v.Last THEN 2 ELSE 0)>>
        \o v.Value

RECURSIVE PDataTf_WritePayload(_)
PDataTf_WritePayload(items) ==
    IF items = <<>> THEN <<>>
    ELSE PresentationDataValueItem_Write(Head(items))
            \o PDataTf_WritePayload(Tail(items))

\* The dynamic dispatch of PDU.WritePayload.
WritePayload(pdu) ==
    CASE pdu.kind = "AAssociate" -> AAssociate_WritePayload(pdu)
      [] pdu.kind = "AAssociateRj" -> AAssociateRj_WritePayload(pdu)
      [] pdu.kind = "PDataTf" -> PDataTf_WritePayload(pdu.Items)
      [] pdu.kind = "AReleaseRq" -> AReleaseRq_WritePayload
      [] pdu.kind = "AReleaseRp" -> AReleaseRp_WritePayload
      [] pdu.kind = "AAbort" -> AAbort_WritePayload(pdu)

\* The type switch at the head of EncodePDU.
PduTypeOf(pdu) ==
    CASE pdu.kind = "AAssociate" -> pdu.Type
      [] pdu.kind = "AAssociateRj" -> TypeAAssociateRj
      [] pdu.kind = "PDataTf" -> TypePDataTf
      [] pdu.kind = "AReleaseRq" -> TypeAReleaseRq
      [] pdu.kind = "AReleaseRp" -> TypeAReleaseRp
      [] pdu.kind = "AAbort" -> TypeAAbort

\* EncodePDU panics on a nil PDU, on an A-ASSOCIATE with Type 0 or an empty
\* title, and wherever a sub-item's Write panics; a nil *AAbort panics in
\* WritePayload.
EncodePanics(pdu) ==
    CASE pdu.kind \in {"nil", "nilAAbort"} -> TRUE
      [] pdu.kind = "AAssociate" ->
            \/ pdu.Type = 0
            \/ pdu.CalledAETitle = <<>>
            \/ pdu.CallingAETitle = <<>>
            \/ ItemsWritePanic(pdu.Items)
      [] OTHER -> FALSE

\* EncodePDU serializes "pdu" into []byte: six header bytes, then the payload.
EncodePDU(pdu) ==
    Then(WritePayload(pdu), LAMBDA payload :
        <<PduTypeOf(pdu), 0>> \o U32BE(Len(payload)) \o payload)

-----------------------------------------------------------------------------
(* The dicomio Reader *)
(*                                                                         *)
(* A reader is [data, pos, limit, stack, st]: the payload bytes the        *)
(* connection can still deliver (at most `length` of them: the             *)
(* io.LimitedReader in ReadPDU), the count of bytes read, the current      *)
(* limit, the stack of outer limits, and "ok", "panic" (a run-time panic   *)
(* was raised) or "hang" (a loop repeats without changing the reader).     *)
(* The Go code shares one reader between caller and callee, so every       *)
(* decoder here returns the reader it leaves behind.                       *)

NewReader(data, limit) ==
    [data |-> data, pos |-> 0, limit |-> limit, stack |-> <<>>, st |-> "ok"]

BytesLeftUntilLimit(d) == d.limit - d.pos

\* Bytes a read can get now: up to the limit, and up to the end of the input.
Available(d) == Min(BytesLeftUntilLimit(d), Len(d.data) - d.pos)

\* The first k bytes at the reader's position, of the n asked for.
Taken(d, n, k) ==
    [v |-> SubSeq(d.data, d.pos + 1, d.pos + k),
     err |-> k < n,
     d |-> [d EXCEPT !.pos = @ + k]]

\* io.ReadFull(r, make([]byte, n)): a short read still consumes what it got.
ReadFull(d, n) == Taken(d, n, Min(n, Available(d)))

ReadByte(d) ==
    Then(ReadFull(d, 1), LAMBDA r :
        [v |-> IF r.err THEN 0 ELSE r.v[1], err |-> r.err, d |-> r.d])

ReadUInt16(d) ==
    Then(ReadFull(d, 2), LAMBDA r :
        [v |-> IF r.err THEN 0 ELSE r.v[1] * 256 + r.v[2],
         err |-> r.err, d |-> r.d])

\* The value fits the model's integers when the first byte is below 128.
ReadUInt32(d) ==
    Then(ReadFull(d, 4), LAMBDA r :
        [v |-> IF r.err THEN 0
               ELSE ((r.v[1] * 256 + r.v[2]) * 256 + r.v[3]) * 256 + r.v[4],
         err |-> r.err, d |-> r.d])

\* ReadString(n) returns "" with the error of a short read.
ReadString(d, n) ==
    Then(ReadFull(d, n), LAMBDA r :
        [v |-> IF r.err THEN <<>> ELSE r.v, err |-> r.err, d |-> r.d])

\* ReadBytes(n) for an n given as two 16-bit halves [hi, lo], so that a
\* length that wrapped around 2^32 stays representable.  The inputs of the
\* model are shorter than 2^16 bytes: a request with hi > 0 always comes up
\* short.
ReadBytes(d, n) ==
    Then(Taken(d, IF n.hi > 0 THEN 65536 ELSE n.lo,
               IF n.hi > 0 THEN Available(d) ELSE Min(n.lo, Available(d))),
         LAMBDA r :
            [v |-> IF r.err THEN <<>> ELSE r.v, err |-> r.err, d |-> r.d])

\* Skip(n) refuses, consuming nothing, when fewer than n bytes are left
\* until the limit; otherwise it discards up to n bytes of the input.
Skip(d, n) ==
    IF BytesLeftUntilLimit(d) < n THEN d
    ELSE [d EXCEPT !.pos = @ + Min(n, Available(d))]

\* PushLimit(n) refuses, pushing nothing, when the new limit would exceed
\* the current one.
PushLimit(d, n) ==
    IF d.pos + n > d.limit THEN d
    ELSE [d EXCEPT !.stack = Append(@, d.limit), !.limit = d.pos + n]

\* The limit on top of the stack comes back; on an empty stack the index is
\* out of range.
RestoreLimit(s) ==
    IF s.stack = <<>> THEN [s EXCEPT !.st = "panic"]
    ELSE [s EXCEPT !.limit = s.stack[Len(s.stack)],
                   !.stack = SubSeq(s.stack, 1, Len(s.stack) - 1)]

\* PopLimit skips to the limit and restores the limit on top of the stack.
PopLimit(d) ==
    RestoreLimit(IF d.pos < d.limit THEN Skip(d, d.limit - d.pos) ELSE d)

\* defer d.PopLimit(): it runs when the decoder returns; a decoder that
\* hangs or panics inside does not come to it.
DeferredPopLimit(d) == IF d.st = "ok" THEN PopLimit(d) ELSE d

-----------------------------------------------------------------------------
(* The decoders of the sub-items *)

\* A nil *AsynchronousOperationsWindowSubItem stored in the SubItem interface.
NilAsynchronousOperationsWindow == [kind |-> "nilAsynchronousOperationsWindow"]

decodeSubItemWithName(d, length) ==
    Then(ReadString(d, length), LAMBDA r : [v |-> r.v, d |-> r.d])

NamedItem(kind, d, length) ==
    Then(decodeSubItemWithName(d, length), LAMBDA r :
        [item |-> [kind |-> kind, Name |-> r.v], d |-> r.d])

decodeApplicationContextItem(d, length) ==
    NamedItem("ApplicationContext", d, length)

decodeAbstractSyntaxSubItem(d, length) == NamedItem("AbstractSyntax", d, length)

decodeTransferSyntaxSubItem(d, length) == NamedItem("TransferSyntax", d, length)

decodeImplementationClassUIDSubItem(d, length) ==
    NamedItem("ImplementationClassUID", d, length)

decodeImplementationVersionNameSubItem(d, length) ==
    NamedItem("ImplementationVersionName", d, length)

\* Four bytes are read whatever `length` says.
decodeUserInformationMaximumLengthItem(d, length) ==
    Then(ReadUInt32(d), LAMBDA r :
        [item |-> [kind |-> "MaximumLength", MaximumLengthReceived |-> r.v],
         d |-> r.d])

\* One u16 is read and stored in both fields.
decodeAsynchronousOperationsWindowSubItem(d, length) ==
    Then(ReadUInt16(d), LAMBDA r :
        IF r.err THEN [item |-> NilAsynchronousOperationsWindow, d |-> r.d]
        ELSE [item |-> [kind |-> "AsynchronousOperationsWindow",
                        MaxOpsInvoked |-> r.v, MaxOpsPerformed |-> r.v],
              d |-> r.d])

decodeRoleSelectionSubItem(d, length) ==
    Then(ReadUInt16(d), LAMBDA uidLen :
    Then(ReadString(uidLen.d, uidLen.v), LAMBDA sop :
    Then(ReadByte(sop.d), LAMBDA scu :
    Then(ReadByte(scu.d), LAMBDA scp :
        [item |-> [kind |-> "RoleSelection", SOPClassUID |-> sop.v,
                   SCURole |-> scu.v, SCPRole |-> scp.v],
         d |-> scp.d]))))

RECURSIVE decodeSubItem(_)
RECURSIVE SubItemLoop(_, _)

\* for d.BytesLeftUntilLimit() > 0 { item := decodeSubItem(d);
\*                                   v.Items = append(v.Items, item) }
\* A pass that leaves the reader as it found it repeats forever.
SubItemLoop(d, items) ==
    IF d.st # "ok" \/ BytesLeftUntilLimit(d) <= 0 THEN [items |-> items, d |-> d]
    ELSE Then(decodeSubItem(d), LAMBDA r :
            IF r.d = d THEN [items |-> items, d |-> [d EXCEPT !.st = "hang"]]
            ELSE SubItemLoop(r.d, Append(items, r.item)))

decodeUserInformationItem(d, length) ==
    Then(SubItemLoop(PushLimit(d, length), <<>>), LAMBDA l :
        [item |-> [kind |-> "UserInformation", Items |-> l.items],
         d |-> DeferredPopLimit(l.d)])

decodePresentationContextItem(d, itemType, length) ==
    Then(ReadByte(PushLimit(d, length)), LAMBDA id :
    Then(ReadByte(Skip(id.d, 1)), LAMBDA pcr :
    Then(SubItemLoop(Skip(pcr.d, 1), <<>>), LAMBDA l :
        [item |-> [kind |-> "PresentationContext", Type |-> itemType,
                   ContextID |-> id.v, Result |-> pcr.v, Items |-> l.items],
         d |-> DeferredPopLimit(l.d)])))

\* The switch on itemType; the default case returns nil and leaves the
\* item's bytes unread.
DecodeByItemType(e, t, n) ==
    CASE t = ItemTypeApplicationContext -> decodeApplicationContextItem(e, n)
      [] t = ItemTypeAbstractSyntax -> decodeAbstractSyntaxSubItem(e, n)
      [] t = ItemTypeTransferSyntax -> decodeTransferSyntaxSubItem(e, n)
      [] t = ItemTypePresentationContextRequest ->
            decodePresentationContextItem(e, t, n)
      [] t = ItemTypePresentationContextResponse ->
            decodePresentationContextItem(e, t, n)
      [] t = ItemTypeUserInformation -> decodeUserInformationItem(e, n)
      [] t = ItemTypeUserInformationMaximumLength ->
            decodeUserInformationMaximumLengthItem(e, n)
      [] t = ItemTypeImplementationClassUID ->
            decodeImplementationClassUIDSubItem(e, n)
      [] t = ItemTypeAsynchronousOperationsWindow ->
            decodeAsynchronousOperationsWindowSubItem(e, n)
      [] t = ItemTypeRoleSelection -> decodeRoleSelectionSubItem(e, n)
      [] t = ItemTypeImplementationVersionName ->
            decodeImplementationVersionNameSubItem(e, n)
      [] OTHER -> [item |-> NilItem, d |-> e]

decodeSubItem(d) ==
    Then(ReadByte(d), LAMBDA itemType :
    Then(ReadUInt16(Skip(itemType.d, 1)), LAMBDA length :
        IF itemType.err THEN [item |-> NilItem, d |-> itemType.d]
        ELSE IF length.err THEN [item |-> NilItem, d |-> length.d]
        ELSE DecodeByItemType(length.d, itemType.v, length.v)))

-----------------------------------------------------------------------------
(* The decoders of the PDUs *)

\* uint32(length - 2) as two 16-bit halves, for a length below 2^31: a length
\* of 0 or 1 wraps around to 2^32 - 2 or 2^32 - 1.
Sub2Mod32(length) ==
    IF length >= 2
    THEN [hi |-> (length - 2) \div 65536, lo |-> (length - 2) % 65536]
    ELSE [hi |-> 65535, lo |-> 65534 + length]

\* ReadPresentationDataValueItem comparing the header byte with 1 and 2
\* instead of testing its bits.
ReadPresentationDataValueItem_HeaderAsEnum(d) ==
    Then(ReadUInt32(d), LAMBDA length :
    Then(ReadByte(length.d), LAMBDA id :
    Then(ReadByte(id.d), LAMBDA header :
    Then(ReadBytes(header.d, Sub2Mod32(length.v)), LAMBDA value :
        [item |-> [ContextID |-> id.v,
                   Command |-> header.v = 1,
                   Last |-> header.v = 2,
                   Value |-> value.v],
         d |-> value.d,
         asked |-> Sub2Mod32(length.v),
         room |-> BytesLeftUntilLimit(header.d)]))))

\* ReadPresentationDataValueItem(d) returns the item and leaves the reader
\* d; asked is the count it passes to d.ReadBytes, as a uint32, and room the
\* bytes left until the limit at that point.
ReadPresentationDataValueItem(d) ==
    Then(ReadUInt32(d), LAMBDA length :
    Then(ReadByte(length.d), LAMBDA id :
    Then(ReadByte(id.d), LAMBDA header :
    Then(ReadBytes(header.d, Sub2Mod32(length.v)), LAMBDA value :
        [item |-> [ContextID |-> id.v,
                   Command |-> header.v % 2 # 0,
                   Last |-> (header.v \div 2) % 2 # 0,
                   Value |-> value.v],
         d |-> value.d,
         asked |-> Sub2Mod32(length.v),
         room |-> BytesLeftUntilLimit(header.d)]))))

RECURSIVE PDataLoop(_, _)

\* for d.BytesLeftUntilLimit() > 0 { item := ReadPresentationDataValueItem(d);
\*                                   pdu.Items = append(pdu.Items, item) }
PDataLoop(d, items) ==
    IF d.st # "ok" \/ BytesLeftUntilLimit(d) <= 0 THEN [items |-> items, d |-> d]
    ELSE Then(ReadPresentationDataValueItem(d), LAMBDA r :
            IF r.d = d THEN [items |-> items, d |-> [d EXCEPT !.st = "hang"]]
            ELSE PDataLoop(r.d, Append(items, r.item)))

\* decodePDataTf keeping the first item of the PDU only.
decodePDataTf_FirstItemOnly(d) ==
    Then(PDataLoop(d, <<>>), LAMBDA l :
        [pdu |-> [kind |-> "PDataTf",
                  Items |-> IF l.items = <<>> THEN <<>> ELSE <<Head(l.items)>>],
         d |-> l.d])

decodePDataTf(d) ==
    Then(PDataLoop(d, <<>>), LAMBDA l :
        [pdu |-> [kind |-> "PDataTf", Items |-> l.items], d |-> l.d])

decodeAReleaseRq(d) == [pdu |-> [kind |-> "AReleaseRq"], d |-> Skip(d, 4)]

decodeAReleaseRp(d) == [pdu |-> [kind |-> "AReleaseRp"], d |-> Skip(d, 4)]

decodeAAssociateRj(d) ==
    Then(ReadByte(Skip(d, 1)), LAMBDA result :
    Then(ReadByte(result.d), LAMBDA source :
    Then(ReadByte(source.d), LAMBDA reason :
        [pdu |-> [kind |-> "AAssociateRj", Result |-> result.v,
                  Source |-> source.v, Reason |-> reason.v],
         d |-> reason.d])))

decodeAAbort(d) ==
    Then(ReadByte(Skip(d, 2)), LAMBDA source :
    Then(ReadByte(source.d), LAMBDA reason :
        IF source.err THEN [pdu |-> NilAAbort, d |-> source.d]
        ELSE IF reason.err THEN [pdu |-> NilAAbort, d |-> reason.d]
        ELSE [pdu |-> [kind |-> "AAbort", Source |-> source.v,
                       Reason |-> reason.v],
              d |-> reason.d]))

RECURSIVE AAssociateLoop(_, _)

\* for d.BytesLeftUntilLimit() > 0 { item := decodeSubItem(d);
\*     if item == nil { break }; pdu.Items = append(pdu.Items, item) }
AAssociateLoop(d, items) ==
    IF d.st # "ok" \/ BytesLeftUntilLimit(d) <= 0 THEN [items |-> items, d |-> d]
    ELSE Then(decodeSubItem(d), LAMBDA r :
            IF r.item = NilItem THEN [items |-> items, d |-> r.d]
            ELSE AAssociateLoop(r.d, Append(items, r.item)))

decodeAAssociate(d, pduType) ==
    Then(ReadUInt16(d), LAMBDA version :
    Then(ReadString(Skip(version.d, 2), 16), LAMBDA called :
    Then(ReadString(called.d, 16), LAMBDA calling :
    Then(AAssociateLoop(Skip(calling.d, 8 * 4), <<>>), LAMBDA l :
        [pdu |-> [kind |-> "AAssociate", Type |-> pduType,
                  ProtocolVersion |-> version.v,
                  CalledAETitle |-> called.v, CallingAETitle |-> calling.v,
                  Items |-> l.items],
         d |-> l.d]))))

-----------------------------------------------------------------------------
(* ReadPDU *)

\* A uint32 is [hi, lo], two 16-bit halves; maxPDUSize, a Go int, is
\* [top, hi, lo] with top the bits above the 32nd.

\* uint32(maxPDUSize) * 2, in 32 bits.
Uint32Times2(m) ==
    [hi |-> (2 * m.hi + (2 * m.lo) \div 65536) % 65536, lo |-> (2 * m.lo) % 65536]

\* a >= b for two uint32.
Uint32GreaterEq(a, b) == a.hi > b.hi \/ (a.hi = b.hi /\ a.lo >= b.lo)

\* length >= uint32(maxPDUSize)*2
SizeGuardRejects(length, m) == Uint32GreaterEq(length, Uint32Times2(m))

Failed(err) ==
    [pdu |-> NilPDU, err |-> err, st |-> "ok", decoded |-> NilPDU, left |-> 0,
     guarded |-> err = "InvalidLength"]

\* The switch on pduType; no case matches an unknown type and pdu stays nil.
DecodeByType(d, pduType) ==
    CASE pduType \in {TypeAAssociateRq, TypeAAssociateAc} ->
            decodeAAssociate(d, pduType)
      [] pduType = TypeAAssociateRj -> decodeAAssociateRj(d)
      [] pduType = TypeAAbort -> decodeAAbort(d)
      [] pduType = TypePDataTf -> decodePDataTf(d)
      [] pduType = TypeAReleaseRq -> decodeAReleaseRq(d)
      [] pduType = TypeAReleaseRp -> decodeAReleaseRp(d)
      [] OTHER -> [pdu |-> NilPDU, d |-> d]

\* What ReadPDU returns once the decoder of the type has run: an error for
\* a nil pdu, then (nil, err) with the nil err of the header read when bytes
\* are left until the limit, else the pdu.
AfterDecode(r) ==
    [pdu |-> IF r.d.st = "ok" /\ BytesLeftUntilLimit(r.d) <= 0 THEN r.pdu
             ELSE NilPDU,
     err |-> IF r.d.st = "ok" /\ r.pdu = NilPDU THEN "UnknownType" ELSE "nil",
     st |-> r.d.st,
     decoded |-> r.pdu,
     left |-> BytesLeftUntilLimit(r.d),
     guarded |-> FALSE]

\* The payload reader: an io.LimitedReader of n bytes over the connection,
\* with the limit n pushed on it.
PayloadReader(in, n) == NewReader(SubSeq(in, 7, 6 + Min(n, Len(in) - 6)), n)

\* The header's length field as a uint32.
LengthOf(in) == [hi |-> in[3] * 256 + in[4], lo |-> in[5] * 256 + in[6]]

\* ReadPDU(in, maxPDUSize) returns [pdu, err]; err is "nil" for a nil error.
\* decoded is the PDU the type's decoder produced and left the bytes it left
\* unread; st is "panic" or "hang" when ReadPDU does not return at all.
ReadPDU(in, m) ==
    IF Len(in) < 2 THEN Failed("EOF")
    ELSE IF Len(in) < 6
    THEN Failed(IF Len(in) = 2 THEN "EOF" ELSE "ErrUnexpectedEOF")
    ELSE IF SizeGuardRejects(LengthOf(in), m) THEN Failed("InvalidLength")
    ELSE AfterDecode(
            DecodeByType(
                PayloadReader(in, LengthOf(in).hi * 65536 + LengthOf(in).lo),
                in[1]))

-----------------------------------------------------------------------------
(* The values the codec scenario draws from *)

MaxTitleLen == 17     \* longest AE title tried (the field holds 16 bytes)
MaxSubItems == 2      \* sub-items inside one user-information item
MaxPDVs == 2          \* PDVs in one P-DATA-TF
MaxValueLen == 2      \* bytes in one PDV value
MaxChop == 2          \* bytes a truncation may cut off the end

\* Sequences over S of length 0..n.
SeqsUpTo(S, n) == UNION {[1..k -> S] : k \in 0..n}

\* A title of n bytes: "ABC...".
TitleOfLen(n) == [i \in 1..n |-> 64 + i]

Titles == {TitleOfLen(n) : n \in {1, 5, 16, MaxTitleLen}}

UID == <<49, 46, 50>>

AppContext == [kind |-> "ApplicationContext", Name |-> UID]

AbstractSyntax == [kind |-> "AbstractSyntax", Name |-> UID]

TransferSyntax == [kind |-> "TransferSyntax", Name |-> <<49>>]

PresentationContexts ==
    { [kind |-> "PresentationContext",
       Type |-> ItemTypePresentationContextRequest,
       ContextID |-> 1, Result |-> 0,
       Items |-> <<AbstractSyntax, TransferSyntax>>],
      [kind |-> "PresentationContext",
       Type |-> ItemTypePresentationContextResponse,
       ContextID |-> 1, Result |-> 0, Items |-> <<TransferSyntax>>],
      [kind |-> "PresentationContext",
       Type |-> ItemTypePresentationContextResponse,
       ContextID |-> 3, Result |-> 3, Items |-> <<TransferSyntax>>] }

\* An item type the package does not know (0x56).
UnknownItem == [kind |-> "Unsupported", Type |-> 86, Data |-> <<1, 2>>]

UserSubItems ==
    { [kind |-> "MaximumLength", MaximumLengthReceived |-> 16384],
      [kind |-> "ImplementationClassUID", Name |-> UID],
      [kind |-> "ImplementationVersionName", Name |-> <<49>>],
      [kind |-> "AsynchronousOperationsWindow",
       MaxOpsInvoked |-> 1, MaxOpsPerformed |-> 1],
      [kind |-> "AsynchronousOperationsWindow",
       MaxOpsInvoked |-> 1, MaxOpsPerformed |-> 2],
      [kind |-> "RoleSelection", SOPClassUID |-> UID,
       SCURole |-> 1, SCPRole |-> 0],
      UnknownItem }

UserInformations ==
    {[kind |-> "UserInformation", Items |-> l] :
        l \in SeqsUpTo(UserSubItems, MaxSubItems)}

\* Item lists in the order of the standard: application context, one
\* presentation context, user information, then an item of unknown type.
ItemLists ==
    {a \o p \o u \o x :
        a \in {<<>>, <<AppContext>>},
        p \in {<<>>} \cup {<<c>> : c \in PresentationContexts},
        u \in {<<>>} \cup {<<i>> : i \in UserInformations},
        x \in {<<>>, <<UnknownItem>>}}

AAssociate(type, called, calling, items) ==
    [kind |-> "AAssociate", Type |-> type, ProtocolVersion |-> 1,
     CalledAETitle |-> called, CallingAETitle |-> calling, Items |-> items]

AAssociates ==
    {AAssociate(t, a, b, <<>>) :
        t \in {TypeAAssociateRq, TypeAAssociateAc}, a \in Titles, b \in Titles}
    \cup {AAssociate(t, a, TitleOfLen(16), l) :
            t \in {TypeAAssociateRq, TypeAAssociateAc},
            a \in {TitleOfLen(5), TitleOfLen(16)}, l \in ItemLists}

PDVs ==
    [ContextID : {1, 3}, Command : BOOLEAN, Last : BOOLEAN,
     Value : {[i \in 1..n |-> 6 + i] : n \in {0, MaxValueLen}}]

PDataTfs == {[kind |-> "PDataTf", Items |-> l] : l \in SeqsUpTo(PDVs, MaxPDVs)}

AAssociateRjs ==
    [kind : {"AAssociateRj"}, Result : {1, 2}, Source : {1, 3}, Reason : {1, 7}]

AAborts == [kind : {"AAbort"}, Source : {0, 2}, Reason : {0, 2, 5}]

PDUValues ==
    AAssociates \cup AAssociateRjs \cup PDataTfs \cup AAborts
        \cup {[kind |-> "AReleaseRq"], [kind |-> "AReleaseRp"]}

\* maxPDUSize arguments: 16 bytes, 4 MiB (what the fuzzer passes), 2^31,
\* 2^31 + 8 and 2^32 + 16.
MaxPDUSizes ==
    { [top |-> 0, hi |-> 0, lo |-> 16],
      [top |-> 0, hi |-> 64, lo |-> 0],
      [top |-> 0, hi |-> 32768, lo |-> 0],
      [top |-> 0, hi |-> 32768, lo |-> 8],
      [top |-> 1, hi |-> 0, lo |-> 16] }

\* Values a peer may put in the length field of the header.
LengthFields ==
    { [hi |-> 0, lo |-> n] : n \in {0, 1, 3, 5, 31, 32} }
    \cup { [hi |-> 127, lo |-> 65535], [hi |-> 128, lo |-> 0],
           [hi |-> 65535, lo |-> 65535] }

\* Type bytes outside 1..7.
UnknownTypes == {0, 8, 255}

\* PDV header bytes with bits other than bit 0 and bit 1 set.
OddHeaders == {4, 5, 6, 253, 255}

NoResult ==
    [pdu |-> NilPDU, err |-> "none", st |-> "none", decoded |-> NilPDU,
     left |-> 0, guarded |-> FALSE]

NoBytes == [st |-> "none", bytes |-> <<>>]

\* No codec scenario is under way.
IdleCodec ==
    /\ phase = "idle"
    /\ pduIn = NilPDU
    /\ wire = <<>>
    /\ tampered = FALSE
    /\ maxPDUSize = [top |-> 0, hi |-> 0, lo |-> 0]
    /\ res = NoResult
    /\ reenc = NoBytes

-----------------------------------------------------------------------------
(* The DIMSE command codec *)
(*                                                                         *)
(* A command is a stream of group-0000 elements in Implicit-VR             *)
(* Little-Endian: tag (group, element: two u16), a u32 length, the value.  *)
(* The first element is (0000,0000) CommandGroupLength, the byte length of *)
(* the elements after it.  An element is [tag, value]; the value is a      *)
(* number for the VRs US and UL and a byte string otherwise.               *)

TagCommandGroupLength == <<0, 0>>
TagAffectedSOPClassUID == <<0, 2>>
TagCommandField == <<0, 256>>
TagMessageID == <<0, 272>>
TagMessageIDBeingRespondedTo == <<0, 288>>
TagPriority == <<0, 1792>>
TagCommandDataSetType == <<0, 2048>>
TagStatus == <<0, 2304>>
TagAffectedSOPInstanceUID == <<0, 4096>>
TagMoveOriginatorApplicationEntityTitle == <<0, 4144>>
TagMoveOriginatorMessageID == <<0, 4145>>

\* The value representation the data dictionary gives a tag; an element the
\* dictionary does not know is read as raw bytes.
VROf(tag) ==
    CASE tag = TagCommandGroupLength -> "UL"
      [] tag \in {TagAffectedSOPClassUID, TagAffectedSOPInstanceUID} -> "UI"
      [] tag = TagMoveOriginatorApplicationEntityTitle -> "AE"
      [] tag \in {TagCommandField, TagMessageID, TagMessageIDBeingRespondedTo,
                  TagPriority, TagCommandDataSetType, TagStatus,
                  TagMoveOriginatorMessageID} -> "US"
      [] OTHER -> "UN"

\* The command-field code (0000,0100) of each message variant.
CommandFieldOf(kind) ==
    CASE kind = "CStoreRq" -> 1
      [] kind = "CStoreRsp" -> 32769
      [] kind = "CEchoRq" -> 48
      [] kind = "CEchoRsp" -> 32816

LE16(n) == <<n % 256, n \div 256>>

LE32(n) == LE16(n % 65536) \o LE16(n \div 65536)

\* A string value is padded to an even length.
PadEven(s, pad) == IF Len(s) % 2 = 1 THEN Append(s, pad) ELSE s

RECURSIVE TrimRight(_, _)
TrimRight(s, pad) ==
    IF s # <<>> /\ s[Len(s)] = pad THEN TrimRight(SubSeq(s, 1, Len(s) - 1), pad)
    ELSE s

EncodeValue(tag, value) ==
    CASE VROf(tag) = "US" -> LE16(value)
      [] VROf(tag) = "UL" -> LE32(value)
      [] VROf(tag) = "UI" -> PadEven(value, 0)
      [] VROf(tag) = "AE" -> PadEven(value, 32)
      [] OTHER -> value

EncodeElement(e) ==
    Then(EncodeValue(e.tag, e.value), LAMBDA b :
        LE16(e.tag[1]) \o LE16(e.tag[2]) \o LE32(Len(b)) \o b)

RECURSIVE EncodeElements(_)
EncodeElements(elems) ==
    IF elems = <<>> THEN <<>>
    ELSE EncodeElement(Head(elems)) \o EncodeElements(Tail(elems))

Element(tag, value) == [tag |-> tag, value |-> value]

\* The elements of a command, the command field among them; the elements
\* of Extra come last.
MessageElements(v) ==
    CASE v.kind = "CStoreRq" ->
            << Element(TagCommandField, CommandFieldOf(v.kind)),
               Element(TagAffectedSOPClassUID, v.AffectedSOPClassUID),
               Element(TagMessageID, v.MessageID),
               Element(TagPriority, v.Priority),
               Element(TagCommandDataSetType, v.CommandDataSetType),
               Element(TagAffectedSOPInstanceUID, v.AffectedSOPInstanceUID),
               Element(TagMoveOriginatorApplicationEntityTitle,
                       v.MoveOriginatorApplicationEntityTitle),
               Element(TagMoveOriginatorMessageID, v.MoveOriginatorMessageID) >>
                \o v.Extra
      [] v.kind = "CStoreRsp" ->
            << Element(TagCommandField, CommandFieldOf(v.kind)),
               Element(TagAffectedSOPClassUID, v.AffectedSOPClassUID),
               Element(TagMessageIDBeingRespondedTo, v.MessageIDBeingRespondedTo),
               Element(TagCommandDataSetType, v.CommandDataSetType),
               Element(TagAffectedSOPInstanceUID, v.AffectedSOPInstanceUID),
               Element(TagStatus, v.Status) >>
                \o v.Extra
      [] v.kind = "CEchoRq" ->
            << Element(TagCommandField, CommandFieldOf(v.kind)),
               Element(TagMessageID, v.MessageID),
               Element(TagCommandDataSetType, v.CommandDataSetType) >>
                \o v.Extra
      [] v.kind = "CEchoRsp" ->
            << Element(TagCommandField, CommandFieldOf(v.kind)),
               Element(TagMessageIDBeingRespondedTo, v.MessageIDBeingRespondedTo),
               Element(TagCommandDataSetType, v.CommandDataSetType),
               Element(TagStatus, v.Status) >>
                \o v.Extra

\* EncodeMessage serialises the elements, then puts their byte length in a
\* (0000,0000) element in front of them.
EncodeMessage(v) ==
    Then(EncodeElements(MessageElements(v)), LAMBDA body :
        EncodeElement(Element(TagCommandGroupLength, Len(body))) \o body)

LE16At(b, i) == b[i] + 256 * b[i + 1]

\* DecodeValue reading a string as it is on the wire, padding included.
DecodeValue_KeepPadding(tag, b) ==
    CASE VROf(tag) = "US" -> LE16At(b, 1)
      [] VROf(tag) = "UL" -> LE16At(b, 1) + 65536 * LE16At(b, 3)
      [] OTHER -> b

DecodeValue(tag, b) ==
    CASE VROf(tag) = "US" -> LE16At(b, 1)
      [] VROf(tag) = "UL" -> LE16At(b, 1) + 65536 * LE16At(b, 3)
      [] VROf(tag) = "UI" -> TrimRight(b, 0)
      [] VROf(tag) = "AE" -> TrimRight(b, 32)
      [] OTHER -> b

RECURSIVE ReadElements(_, _, _)

\* The element at index i, whose value has n bytes, then the rest.
ReadElement(b, i, n, acc) ==
    IF i + 7 + n > Len(b) THEN [err |-> TRUE, elems |-> acc]
    ELSE ReadElements(b, i + 8 + n,
            Append(acc, Element(<<LE16At(b, i), LE16At(b, i + 2)>>,
                                DecodeValue(<<LE16At(b, i), LE16At(b, i + 2)>>,
                                            SubSeq(b, i + 8, i + 7 + n)))))

ReadElements(b, i, acc) ==
    IF i > Len(b) THEN [err |-> FALSE, elems |-> acc]
    ELSE IF i + 7 > Len(b) THEN [err |-> TRUE, elems |-> acc]
    ELSE ReadElement(b, i, LE16At(b, i + 4) + 65536 * LE16At(b, i + 6), acc)

\* dicom.ReadDataSetInBytes: the elements of the byte stream, in order.
ReadDataSetInBytes(b) == ReadElements(b, 1, <<>>)

NilMessage == [kind |-> "nil"]

HasElement(elems, tag) == \E i \in 1..Len(elems) : elems[i].tag = tag

\* The value of the first element with the tag.
FindElement(elems, tag) ==
    elems[CHOOSE i \in 1..Len(elems) :
            /\ elems[i].tag = tag
            /\ \A j \in 1..(i - 1) : elems[j].tag # tag].value

\* The elements a command's fields did not take, in order.
UnparsedElements(elems, taken) ==
    SelectSeq(elems, LAMBDA e :
        e.tag \notin taken \cup {TagCommandGroupLength, TagCommandField})

\* The tags of the fields of each message variant.
FieldTags(kind) ==
    CASE kind = "CStoreRq" ->
            {TagAffectedSOPClassUID, TagMessageID, TagPriority,
             TagCommandDataSetType, TagAffectedSOPInstanceUID,
             TagMoveOriginatorApplicationEntityTitle, TagMoveOriginatorMessageID}
      [] kind = "CStoreRsp" ->
            {TagAffectedSOPClassUID, TagMessageIDBeingRespondedTo,
             TagCommandDataSetType, TagAffectedSOPInstanceUID, TagStatus}
      [] kind = "CEchoRq" -> {TagMessageID, TagCommandDataSetType}
      [] kind = "CEchoRsp" ->
            {TagMessageIDBeingRespondedTo, TagCommandDataSetType, TagStatus}

\* The typed command of a variant, its fields taken from the elements.
DecodeCommand(kind, elems) ==
    CASE kind = "CStoreRq" ->
            [kind |-> kind,
             AffectedSOPClassUID |-> FindElement(elems, TagAffectedSOPClassUID),
             MessageID |-> FindElement(elems, TagMessageID),
             Priority |-> FindElement(elems, TagPriority),
             CommandDataSetType |-> FindElement(elems, TagCommandDataSetType),
             AffectedSOPInstanceUID |->
                FindElement(elems, TagAffectedSOPInstanceUID),
             MoveOriginatorApplicationEntityTitle |->
                FindElement(elems, TagMoveOriginatorApplicationEntityTitle),
             MoveOriginatorMessageID |->
                FindElement(elems, TagMoveOriginatorMessageID),
             Extra |-> UnparsedElements(elems, FieldTags(kind))]
      [] kind = "CStoreRsp" ->
            [kind |-> kind,
             AffectedSOPClassUID |-> FindElement(elems, TagAffectedSOPClassUID),
             MessageIDBeingRespondedTo |->
                FindElement(elems, TagMessageIDBeingRespondedTo),
             CommandDataSetType |-> FindElement(elems, TagCommandDataSetType),
             AffectedSOPInstanceUID |->
                FindElement(elems, TagAffectedSOPInstanceUID),
             Status |-> FindElement(elems, TagStatus),
             Extra |-> UnparsedElements(elems, FieldTags(kind))]
      [] kind = "CEchoRq" ->
            [kind |-> kind,
             MessageID |-> FindElement(elems, TagMessageID),
             CommandDataSetType |-> FindElement(elems, TagCommandDataSetType),
             Extra |-> UnparsedElements(elems, FieldTags(kind))]
      [] kind = "CEchoRsp" ->
            [kind |-> kind,
             MessageIDBeingRespondedTo |->
                FindElement(elems, TagMessageIDBeingRespondedTo),
             CommandDataSetType |-> FindElement(elems, TagCommandDataSetType),
             Status |-> FindElement(elems, TagStatus),
             Extra |-> UnparsedElements(elems, FieldTags(kind))]

\* The variant a command-field code names, "" for a code of no variant here.
KindOfCommandField(code) ==
    IF \E k \in {"CStoreRq", "CStoreRsp", "CEchoRq", "CEchoRsp"} :
            CommandFieldOf(k) = code
    THEN CHOOSE k \in {"CStoreRq", "CStoreRsp", "CEchoRq", "CEchoRsp"} :
            CommandFieldOf(k) = code
    ELSE ""

\* ReadMessage: the command the command field names; nil when the command
\* field or a field of the command is missing.
ReadMessage(elems) ==
    IF ~HasElement(elems, TagCommandField) THEN NilMessage
    ELSE Then(KindOfCommandField(FindElement(elems, TagCommandField)),
              LAMBDA kind :
                IF kind = "" THEN NilMessage
                ELSE IF \E t \in FieldTags(kind) : ~HasElement(elems, t)
                THEN NilMessage
                ELSE DecodeCommand(kind, elems))

MaxExtra == 1         \* Extra elements in one DIMSE command

\* Elements of tags the data dictionary does not know.
ExtraElements ==
    { Element(<<0, 20496>>, <<1, 2>>), Element(<<9, 16>>, <<7, 0, 9, 32>>) }

\* "1.2" and "1.23": an odd and an even length.
DimseUIDs == {<<49, 46, 50>>, <<49, 46, 50, 51>>}

\* "", "EMMA" and "ALICE".
DimseAETitles == {<<>>, <<69, 77, 77, 65>>, <<65, 76, 73, 67, 69>>}

\* CommandDataSetTypeNull (0x0101) and a type that announces a data set.
CommandDataSetTypes == {257, 1}

MessageIDs == {0, 4660}

StatusCodes == {0, 9029, 13398}

Extras == SeqsUpTo(ExtraElements, MaxExtra)

CStoreRqs ==
    [kind : {"CStoreRq"}, AffectedSOPClassUID : DimseUIDs,
     MessageID : MessageIDs, Priority : {0},
     CommandDataSetType : CommandDataSetTypes,
     AffectedSOPInstanceUID : {<<51, 46, 52, 46, 53>>},
     MoveOriginatorApplicationEntityTitle : DimseAETitles,
     MoveOriginatorMessageID : {0, 7}, Extra : Extras]

CStoreRsps ==
    [kind : {"CStoreRsp"}, AffectedSOPClassUID : DimseUIDs,
     MessageIDBeingRespondedTo : MessageIDs,
     CommandDataSetType : CommandDataSetTypes,
     AffectedSOPInstanceUID : {<<51, 46, 52, 46, 53>>},
     Status : StatusCodes, Extra : Extras]

CEchoRqs ==
    [kind : {"CEchoRq"}, MessageID : MessageIDs,
     CommandDataSetType : CommandDataSetTypes, Extra : Extras]

CEchoRsps ==
    [kind : {"CEchoRsp"}, MessageIDBeingRespondedTo : MessageIDs,
     CommandDataSetType : CommandDataSetTypes, Status : StatusCodes,
     Extra : Extras]

Messages == CStoreRqs \cup CStoreRsps \cup CEchoRqs \cup CEchoRsps

NoDataSet == [err |-> FALSE, elems |-> <<>>]

\* No DIMSE round trip is under way.
IdleDimse ==
    /\ dimsePhase = "idle"
    /\ dimseIn = NilMessage
    /\ dimseBytes = <<>>
    /\ dimseSet = NoDataSet
    /\ dimseOut = NilMessage

MaxEchoCalls == 4     \* CEcho() calls on one association

Success == [Status |-> 0]

\* What a C-ECHO handler may return: dimse.Success or a failure status.
HandlerStatuses == {Success, [Status |-> 292]}

\* No association is under way.
IdleEcho ==
    /\ suState = "idle"
    /\ spState = "listening"
    /\ toProvider = <<>>
    /\ toUser = <<>>
    /\ nEchoRequests = 0
    /\ oldCount = 0
    /\ calls = 0
    /\ handlerStatus = <<>>
    /\ cechoErr = <<>>

-----------------------------------------------------------------------------
(* The values of the C-STORE exchange *)

\* Tags of the data set handed to CStore.
TagMediaStorageSOPClassUID == <<2, 2>>
TagMediaStorageSOPInstanceUID == <<2, 3>>
TagPatientName == <<16, 16>>

\* The transfer syntaxes of StandardTransferSyntaxes that are not deflated.
TransferSyntaxUIDs ==
    {"ImplicitVRLittleEndian", "ExplicitVRLittleEndian", "ExplicitVRBigEndian"}

\* Three storage SOP classes, "1.7", "1.8" and "1.9"; the ServiceUser of the
\* store tests offers the first two (sopclass.StorageClasses).
StorageClasses == << <<49, 46, 55>>, <<49, 46, 56>> >>

SOPClassUIDs == {<<49, 46, 55>>, <<49, 46, 56>>, <<49, 46, 57>>}

\* The data sets tried: a patient name, with or without the two media
\* storage UIDs in front of it.
DataSets ==
    { classElem \o instanceElem \o << Element(TagPatientName, <<74, 79>>) >> :
        classElem \in {<<>>} \cup
            { << Element(TagMediaStorageSOPClassUID, u) >> : u \in SOPClassUIDs },
        instanceElem \in
            {<<>>, << Element(TagMediaStorageSOPInstanceUID, <<51, 46, 52>>) >>} }

\* What the provider's C-STORE handler may return: dimse.Success, a success
\* code with a comment, StatusNotAuthorized with the comment "Foohah", and
\* two other failure codes.
CStoreStatuses ==
    { [Status |-> 0, ErrorComment |-> ""],
      [Status |-> 0, ErrorComment |-> "note"],
      [Status |-> 292, ErrorComment |-> "Foohah"],
      [Status |-> 49152, ErrorComment |-> "Foohah"],
      [Status |-> 65280, ErrorComment |-> ""] }

NoFaultInjector == [installed |-> FALSE, connected |-> FALSE]

OpenChannel == [events |-> <<>>, closed |-> FALSE]

\* The zero value of a C-STORE response.
NilRsp ==
    [AffectedSOPClassUID |-> <<>>, MessageIDBeingRespondedTo |-> 0,
     CommandDataSetType |-> 0, AffectedSOPInstanceUID |-> <<>>,
     Status |-> [Status |-> 0, ErrorComment |-> ""]]

\* What CStore returned: err is "nil" or the error's message without the
\* response it prints, resp the response the message prints.
Returned(err, resp) == [returned |-> TRUE, err |-> err, resp |-> resp]

NotReturned == [returned |-> FALSE, err |-> "", resp |-> NilRsp]

\* No ServiceUser has done anything yet.
IdleStore ==
    /\ suStatus = "serviceUserInitial"
    /\ suPc = "new"
    /\ userSta = "sta01"
    /\ serverUp = FALSE
    /\ faults = NoFaultInjector
    /\ cm = <<>>
    /\ storeDs = <<>>
    /\ downcallCh = <<>>
    /\ smTaken = 0
    /\ upcallCh = OpenChannel
    /\ received = 0
    /\ socket = <<>>
    /\ cstoreStatus = [Status |-> 0, ErrorComment |-> ""]
    /\ cstoreData = <<>>
    /\ cstoreErr = NotReturned

MaxFindResults == 3   \* results one C-FIND handler emits

\* The patient names a C-FIND handler answers with.
FoundNames == {"johndoe", "johndoe2"}

\* CFindResult{Elements: {PatientName = name}}, no error.
CFindResult(name) ==
    [Err |-> "nil", Elements |-> << Element(TagPatientName, name) >>]

\* No C-FIND has been asked for.
IdleFind ==
    /\ findPc = "connected"
    /\ findLeft = <<>>
    /\ findEmitted = <<>>
    /\ findCh = OpenChannel
    /\ findWire = <<>>
    /\ findStream = OpenChannel
    /\ namesFound = <<>>

\* A state machine that has handled no event.
IdleSm ==
    /\ smCurrent = "sta01"
    /\ smFrom = "sta01"
    /\ smEvent = "none"
    /\ smAction = "none"
    /\ smSent = "none"
    /\ smTimer = "stopped"

\* The rolling buffers of an association that has received nothing.
NoBuffers == [id \in {1, 3} |-> [command |-> <<>>, data |-> <<>>]]

\* A machine that was handed nothing to send.
IdleFrag ==
    /\ fragM = 0
    /\ fragCtx = 0
    /\ fragCmd = <<>>
    /\ fragData = <<>>
    /\ fragPc = "idle"
    /\ fragQueue = <<>>
    /\ fragWire = <<>>
    /\ fragRead = 0
    /\ fragSeen = <<>>
    /\ fragBuf = NoBuffers
    /\ fragUp = <<>>

\* A context manager that has offered nothing.
IdleCtx ==
    /\ ctxOffered = 0
    /\ ctxNextID = 1
    /\ ctxAssigned = <<>>
    /\ ctxAnswered = <<>>

IdleTs ==
    /\ tsOffered = <<>>
    /\ tsCanonical = <<>>
    /\ tsAgain = <<>>
    /\ tsParsed = <<>>

IdleAsm ==
    /\ asmPending = <<>>
    /\ asmSent = <<>>

IdleRel ==
    /\ relState = <<>>
    /\ relInbox = <<>>
    /\ relWants = {}
    /\ relClosed = {}
    /\ relEof = {}
    /\ relLog = <<>>

IdleItem ==
    /\ itemIn = <<>>
    /\ itemOut = <<>>
    /\ itemRes = <<>>
    /\ itemWire = <<>>

IdlePdv ==
    /\ pdvIn = <<>>
    /\ pdvD = <<>>
    /\ pdvRead = <<>>

IdleSize ==
    /\ sizeItem = NilItem
    /\ sizeWire = <<>>

IdleRest ==
    /\ IdleStore
    /\ IdleFind
    /\ IdleSm
    /\ IdleFrag
    /\ IdleCtx
    /\ IdleTs
    /\ IdleAsm
    /\ IdleRel
    /\ IdleItem
    /\ IdlePdv
    /\ IdleSize

(* The round trip of testDIMSE: EncodeMessage, ReadDataSetInBytes, ReadMessage *)

InitDimse ==
    /\ dimsePhase = "start"
    /\ dimseIn \in Messages
    /\ dimseBytes = <<>>
    /\ dimseSet = NoDataSet
    /\ dimseOut = NilMessage
    /\ IdleCodec
    /\ IdleEcho
    /\ IdleRest

DimseEncode ==
    /\ dimsePhase = "start"
    /\ dimseBytes' = EncodeMessage(dimseIn)
    /\ dimsePhase' = "encoded"
    /\ UNCHANGED <<dimseIn, dimseSet, dimseOut, codecVars, echoVars, restVars>>

DimseParse ==
    /\ dimsePhase = "encoded"
    /\ dimseSet' = ReadDataSetInBytes(dimseBytes)
    /\ dimsePhase' = "parsed"
    /\ UNCHANGED <<dimseIn, dimseBytes, dimseOut, codecVars, echoVars, restVars>>

DimseRead ==
    /\ dimsePhase = "parsed"
    /\ ~dimseSet.err
    /\ dimseOut' = ReadMessage(dimseSet.elems)
    /\ dimsePhase' = "read"
    /\ UNCHANGED <<dimseIn, dimseBytes, dimseSet, codecVars, echoVars, restVars>>

NextDimse ==
    \/ DimseEncode
    \/ DimseParse
    \/ DimseRead

SpecDimse == InitDimse /\ [][NextDimse]_vars

-----------------------------------------------------------------------------
(* The C-ECHO exchange of TestEcho: a ServiceUser that offers the          *)
(* Verification SOP class connects to the provider and calls CEcho();      *)
(* the provider runs its C-ECHO handler, which counts its runs in          *)
(* nEchoRequests, and answers with the handler's status.                   *)

InitEcho == IdleEcho /\ IdleCodec /\ IdleDimse /\ IdleRest

\* mustNewServiceUser: the user connects and sends its A-ASSOCIATE-RQ.
Connect ==
    /\ suState = "idle"
    /\ suState' = "connecting"
    /\ toProvider' = Append(toProvider, [kind |-> "AAssociateRq"])
    /\ UNCHANGED <<spState, toUser, nEchoRequests, oldCount, calls,
                   handlerStatus, cechoErr, codecVars, dimseVars, restVars>>

\* The provider accepts the association.
Accept ==
    /\ spState = "listening"
    /\ toProvider # <<>> /\ Head(toProvider).kind = "AAssociateRq"
    /\ toProvider' = Tail(toProvider)
    /\ toUser' = Append(toUser, [kind |-> "AAssociateAc"])
    /\ spState' = "associated"
    /\ UNCHANGED <<suState, nEchoRequests, oldCount, calls, handlerStatus,
                   cechoErr, codecVars, dimseVars, restVars>>

\* The user receives the A-ASSOCIATE-AC: the association is ready.
Established ==
    /\ suState = "connecting"
    /\ toUser # <<>> /\ Head(toUser).kind = "AAssociateAc"
    /\ toUser' = Tail(toUser)
    /\ suState' = "ready"
    /\ UNCHANGED <<spState, toProvider, nEchoRequests, oldCount, calls,
                   handlerStatus, cechoErr, codecVars, dimseVars, restVars>>

\* oldCount := nEchoRequests; su.CEcho() sends a C-ECHO-RQ and waits.
CEchoCall ==
    /\ suState = "ready"
    /\ calls < MaxEchoCalls
    /\ oldCount' = nEchoRequests
    /\ calls' = calls + 1
    /\ toProvider' = Append(toProvider,
                            [kind |-> "CEchoRq", MessageID |-> calls + 1])
    /\ suState' = "echoing"
    /\ UNCHANGED <<spState, toUser, nEchoRequests, handlerStatus, cechoErr,
                   codecVars, dimseVars, restVars>>

\* The provider receiving a C-ECHO-RQ and answering without running the
\* handler.
OnCEchoRequest_NoHandler ==
    /\ spState = "associated"
    /\ toProvider # <<>> /\ Head(toProvider).kind = "CEchoRq"
    /\ \E status \in HandlerStatuses :
          /\ handlerStatus' = Append(handlerStatus, status)
          /\ toUser' = Append(toUser,
                [kind |-> "CEchoRsp",
                 MessageIDBeingRespondedTo |-> Head(toProvider).MessageID,
                 Status |-> status])
    /\ toProvider' = Tail(toProvider)
    /\ UNCHANGED <<suState, spState, nEchoRequests, oldCount, calls, cechoErr,
                   codecVars, dimseVars, restVars>>

\* The provider receives a C-ECHO-RQ, runs the handler (onCEchoRequest:
\* nEchoRequests++, return the status) and answers with its status.
OnCEchoRequest ==
    /\ spState = "associated"
    /\ toProvider # <<>> /\ Head(toProvider).kind = "CEchoRq"
    /\ nEchoRequests' = nEchoRequests + 1
    /\ \E status \in HandlerStatuses :
          /\ handlerStatus' = Append(handlerStatus, status)
          /\ toUser' = Append(toUser,
                [kind |-> "CEchoRsp",
                 MessageIDBeingRespondedTo |-> Head(toProvider).MessageID,
                 Status |-> status])
    /\ toProvider' = Tail(toProvider)
    /\ UNCHANGED <<suState, spState, oldCount, calls, cechoErr,
                   codecVars, dimseVars, restVars>>

\* CEcho() receives the C-ECHO-RSP and returns: nil for a success status,
\* an error otherwise.
CEchoReturn ==
    /\ suState = "echoing"
    /\ toUser # <<>> /\ Head(toUser).kind = "CEchoRsp"
    /\ cechoErr' = Append(cechoErr,
                          IF Head(toUser).Status = Success THEN "nil"
                          ELSE "error")
    /\ toUser' = Tail(toUser)
    /\ suState' = "ready"
    /\ UNCHANGED <<spState, toProvider, nEchoRequests, oldCount, calls,
                   handlerStatus, codecVars, dimseVars, restVars>>

\* su.Release() sends an A-RELEASE-RQ.
Release ==
    /\ suState = "ready"
    /\ toProvider' = Append(toProvider, [kind |-> "AReleaseRq"])
    /\ suState' = "releasing"
    /\ UNCHANGED <<spState, toUser, nEchoRequests, oldCount, calls,
                   handlerStatus, cechoErr, codecVars, dimseVars, restVars>>

\* The provider answers the A-RELEASE-RQ and closes.
ReleaseRp ==
    /\ spState = "associated"
    /\ toProvider # <<>> /\ Head(toProvider).kind = "AReleaseRq"
    /\ toProvider' = Tail(toProvider)
    /\ toUser' = Append(toUser, [kind |-> "AReleaseRp"])
    /\ spState' = "closed"
    /\ UNCHANGED <<suState, nEchoRequests, oldCount, calls, handlerStatus,
                   cechoErr, codecVars, dimseVars, restVars>>

\* The user receives the A-RELEASE-RP: the association is over.
Released ==
    /\ suState = "releasing"
    /\ toUser # <<>> /\ Head(toUser).kind = "AReleaseRp"
    /\ toUser' = Tail(toUser)
    /\ suState' = "released"
    /\ UNCHANGED <<spState, toProvider, nEchoRequests, oldCount, calls,
                   handlerStatus, cechoErr, codecVars, dimseVars, restVars>>

NextEcho ==
    \/ Connect
    \/ Accept
    \/ Established
    \/ CEchoCall
    \/ OnCEchoRequest
    \/ CEchoReturn
    \/ Release
    \/ ReleaseRp
    \/ Released

SpecEcho == InitEcho /\ [][NextEcho]_vars

-----------------------------------------------------------------------------
(* The C-STORE exchange of TestStore, TestStoreFailure0, TestStoreFailure1, *)
(* TestNonexistentServer and TestReleaseWithoutConnect: a ServiceUser that  *)
(* offers the storage SOP classes connects (or fails to), calls CStore once *)
(* and releases the association.  CStore runs runCStoreOnAssociation, which *)
(* talks to the user's state machine over the downcall and upcall channels. *)

\* ds.FindElementByTag(tag) of the dicom library.
FindElementByTag(ds, tag) ==
    IF \E i \in 1..Len(ds) : ds[i].tag = tag
    THEN [err |-> FALSE,
          value |-> ds[CHOOSE i \in 1..Len(ds) : ds[i].tag = tag].value]
    ELSE [err |-> TRUE, value |-> <<>>]

NoContext ==
    [contextID |-> 0, abstractSyntaxName |-> <<>>, transferSyntaxUID |-> "",
     accepted |-> FALSE]

\* cm.lookupByAbstractSyntaxUID(name): the accepted context of the abstract
\* syntax, or an error when there is none.
lookupByAbstractSyntaxUID(m, name) ==
    IF \E i \in 1..Len(m) : m[i].abstractSyntaxName = name /\ m[i].accepted
    THEN [err |-> "nil",
          context |-> m[CHOOSE i \in 1..Len(m) :
                            m[i].abstractSyntaxName = name /\ m[i].accepted]]
    ELSE [err |-> "SOP class not negotiated", context |-> NoContext]

\* The value representation of the data set's tags and its two bytes.
DataSetVR(tag) ==
    IF tag \in {TagMediaStorageSOPClassUID, TagMediaStorageSOPInstanceUID}
    THEN <<85, 73>> ELSE <<80, 78>>

WriteUInt16In(bo, n) == IF bo = "BigEndian" THEN U16BE(n) ELSE LE16(n)

WriteUInt32In(bo, n) == IF bo = "BigEndian" THEN U32BE(n) ELSE LE32(n)

\* e.WriteElement(elem) of the dicom library after e.SetTransferSyntax(bo,
\* implicit): the tag, then a u32 length (implicit VR) or the VR and a u16
\* length (explicit VR), then the value padded to an even length.
WriteElement(elem, bo, implicit) ==
    Then(PadEven(elem.value, IF DataSetVR(elem.tag) = <<85, 73>> THEN 0 ELSE 32),
         LAMBDA b :
            WriteUInt16In(bo, elem.tag[1]) \o WriteUInt16In(bo, elem.tag[2])
            \o (IF implicit THEN WriteUInt32In(bo, Len(b))
                ELSE DataSetVR(elem.tag) \o WriteUInt16In(bo, Len(b)))
            \o b)

RECURSIVE WriteElements(_, _, _)
\* for _, elem := range ds.Elements { e.WriteElement(elem) }
WriteElements(elems, bo, implicit) ==
    IF elems = <<>> THEN <<>>
    ELSE WriteElement(Head(elems), bo, implicit)
         \o WriteElements(Tail(elems), bo, implicit)

\* runCStoreOnAssociation sending its event before it looks the SOP class up.
runCStoreOnAssociation_Request_SendFirst(m, messageID, ds) ==
    Then(FindElementByTag(ds, TagMediaStorageSOPInstanceUID), LAMBDA instance :
    Then(FindElementByTag(ds, TagMediaStorageSOPClassUID), LAMBDA class :
    Then(lookupByAbstractSyntaxUID(m, class.value), LAMBDA context :
        IF instance.err
        THEN [err |-> "data lacks SOPInstanceUID", events |-> <<>>]
        ELSE IF class.err
        THEN [err |-> "data lacks MediaStorageSOPClassUID", events |-> <<>>]
        ELSE [err |-> context.err,
              events |->
                << [event |-> "evt09",
                    abstractSyntaxName |-> class.value,
                    command |->
                        [kind |-> "CStoreRq",
                         AffectedSOPClassUID |-> class.value,
                         MessageID |-> messageID,
                         Priority |-> 0,
                         CommandDataSetType |-> 1,
                         AffectedSOPInstanceUID |-> instance.value,
                         MoveOriginatorApplicationEntityTitle |-> <<>>,
                         MoveOriginatorMessageID |-> 0,
                         Extra |-> <<>>],
                    data |-> WriteElements(ds, "LittleEndian", TRUE)] >>])))

\* runCStoreOnAssociation up to its send on downcallCh: the error it returns
\* before sending, or "nil" and the event it sends.
runCStoreOnAssociation_Request(m, messageID, ds) ==
    Then(FindElementByTag(ds, TagMediaStorageSOPInstanceUID), LAMBDA instance :
    Then(FindElementByTag(ds, TagMediaStorageSOPClassUID), LAMBDA class :
    Then(lookupByAbstractSyntaxUID(m, class.value), LAMBDA context :
        IF instance.err
        THEN [err |-> "data lacks SOPInstanceUID", events |-> <<>>]
        ELSE IF class.err
        THEN [err |-> "data lacks MediaStorageSOPClassUID", events |-> <<>>]
        ELSE IF context.err # "nil"
        THEN [err |-> context.err, events |-> <<>>]
        ELSE [err |-> "nil",
              events |->
                << [event |-> "evt09",
                    abstractSyntaxName |-> class.value,
                    command |->
                        [kind |-> "CStoreRq",
                         AffectedSOPClassUID |-> class.value,
                         MessageID |-> messageID,
                         Priority |-> 0,
                         CommandDataSetType |-> 1,
                         AffectedSOPInstanceUID |-> instance.value,
                         MoveOriginatorApplicationEntityTitle |-> <<>>,
                         MoveOriginatorMessageID |-> 0,
                         Extra |-> <<>>],
                    data |-> WriteElements(ds, "LittleEndian", TRUE)] >>])))

\* runCStoreOnAssociation returning nil for every response.
runCStoreOnAssociation_Response_IgnoreStatus(ch) ==
    IF ch.events = <<>>
    THEN Returned("Connection closed while waiting for C-STORE response", NilRsp)
    ELSE Returned("nil", NilRsp)

\* runCStoreOnAssociation from its receive on upcallCh: ch is the channel
\* when the receive returns, with an event in it or closed.
runCStoreOnAssociation_Response(ch) ==
    IF ch.events = <<>>
    THEN Returned("Connection closed while waiting for C-STORE response", NilRsp)
    ELSE IF Head(ch.events).command.Status.Status # 0
    THEN Returned("failed", Head(ch.events).command)
    ELSE Returned("nil", NilRsp)

\* What the handshake can leave in the context manager: one entry per
\* offered SOP class, each accepted or rejected by the provider, with the
\* transfer syntax the provider chose.
NegotiatedContexts ==
    { [i \in 1..Len(StorageClasses) |->
          [contextID |-> 2 * i - 1,
           abstractSyntaxName |-> StorageClasses[i],
           transferSyntaxUID |-> ts[i],
           accepted |-> acc[i]]] :
        ts \in [1..Len(StorageClasses) -> TransferSyntaxUIDs],
        acc \in [1..Len(StorageClasses) -> BOOLEAN] }

\* The test starts: the provider's handler returns cstoreStatus, the
\* address can be connected to or not, a testFaultInjector is installed or
\* not, and NewServiceUser has returned.
InitStore ==
    /\ suStatus = "serviceUserInitial"
    /\ suPc = "new"
    /\ userSta = "sta01"
    /\ serverUp \in BOOLEAN
    /\ faults \in [installed : BOOLEAN, connected : {FALSE}]
    /\ cm = <<>>
    /\ storeDs = <<>>
    /\ downcallCh = <<>>
    /\ smTaken = 0
    /\ upcallCh = OpenChannel
    /\ received = 0
    /\ socket = <<>>
    /\ cstoreStatus \in CStoreStatuses
    /\ cstoreData = <<>>
    /\ cstoreErr = NotReturned
    /\ IdleCodec
    /\ IdleDimse
    /\ IdleEcho
    /\ IdleFind
    /\ IdleSm
    /\ IdleFrag
    /\ IdleCtx
    /\ IdleTs
    /\ IdleAsm
    /\ IdleRel
    /\ IdleItem
    /\ IdlePdv
    /\ IdleSize

\* su.Connect(addr): when no TCP connection can be made the ServiceUser is
\* closed at once; otherwise the state machine starts and sends the
\* A-ASSOCIATE-RQ.
StoreConnect ==
    /\ suPc = "new"
    /\ suPc' = "connected"
    /\ IF serverUp
       THEN /\ socket' = Append(socket, [kind |-> "AAssociateRq"])
            /\ userSta' = "sta05"
            /\ UNCHANGED suStatus
       ELSE /\ suStatus' = "serviceUserClosed"
            /\ UNCHANGED <<socket, userSta>>
    /\ UNCHANGED <<serverUp, faults, cm, storeDs, downcallCh, smTaken,
                   upcallCh, received, cstoreStatus, cstoreData, cstoreErr,
                   otherThanStore>>

\* The A-ASSOCIATE-AC arrives: the state machine enters sta06 (the fault
\* injector's onStateTransition sees it), the context manager holds the
\* negotiated contexts and the ServiceUser becomes active.
StoreAccept ==
    /\ userSta = "sta05"
    /\ userSta' = "sta06"
    /\ faults' = [faults EXCEPT !.connected = faults.installed]
    /\ cm' \in NegotiatedContexts
    /\ suStatus' = "serviceUserAssociationActive"
    /\ UNCHANGED <<suPc, serverUp, storeDs, downcallCh, smTaken, upcallCh,
                   received, socket, cstoreStatus, cstoreData, cstoreErr,
                   otherThanStore>>

\* The provider answers with an A-ASSOCIATE-RJ: the connection is closed.
StoreReject ==
    /\ userSta = "sta05"
    /\ userSta' = "sta01"
    /\ suStatus' = "serviceUserClosed"
    /\ upcallCh' = [upcallCh EXCEPT !.closed = TRUE]
    /\ UNCHANGED <<suPc, serverUp, faults, cm, storeDs, downcallCh, smTaken,
                   received, socket, cstoreStatus, cstoreData, cstoreErr,
                   otherThanStore>>

\* su.waitUntilReady() once the ServiceUser has left its initial status,
\* always reporting an active association.
waitUntilReady_AlwaysReady(status) == "nil"

\* su.waitUntilReady() once the ServiceUser has left its initial status: an
\* error unless the association is active.
waitUntilReady(status) ==
    IF status # "serviceUserAssociationActive" THEN "Connection failed"
    ELSE "nil"

\* su.CStore(ds): it waits until the ServiceUser has left its initial
\* status, returns "Connection failed" when the association is not active,
\* and otherwise runs runCStoreOnAssociation up to its send on downcallCh.
CStoreCall ==
    /\ suPc = "connected"
    /\ suStatus # "serviceUserInitial"
    /\ \E ds \in DataSets :
        /\ storeDs' = ds
        /\ IF waitUntilReady(suStatus) # "nil"
           THEN /\ cstoreErr' = Returned(waitUntilReady(suStatus), NilRsp)
                /\ suPc' = "stored"
                /\ UNCHANGED downcallCh
           ELSE Then(runCStoreOnAssociation_Request(cm, 1, ds), LAMBDA r :
                    /\ downcallCh' = downcallCh \o r.events
                    /\ IF r.err # "nil"
                       THEN cstoreErr' = Returned(r.err, NilRsp) /\ suPc' = "stored"
                       ELSE UNCHANGED cstoreErr /\ suPc' = "waiting")
    /\ UNCHANGED <<suStatus, userSta, serverUp, faults, cm, smTaken, upcallCh,
                   received, socket, cstoreStatus, cstoreData,
                   otherThanStore>>

\* The connection is cut: the state machine stops and the dispatcher closes
\* the upcall channels of the commands under way.
Disconnected ==
    /\ userSta' = "sta01"
    /\ suStatus' = "serviceUserClosed"
    /\ upcallCh' = [upcallCh EXCEPT !.closed = TRUE]

\* The state machine takes the P-DATA request (evt09) in sta06 and sends
\* the command and the data as P-DATA-TF PDUs, the command in Implicit-VR
\* Little-Endian; the fault injector's onSend cuts the connection instead
\* when it has seen sta06.
StoreSendData ==
    /\ userSta = "sta06"
    /\ smTaken < Len(downcallCh)
    /\ downcallCh[smTaken + 1].event = "evt09"
    /\ smTaken' = smTaken + 1
    /\ IF faults.connected
       THEN Disconnected /\ UNCHANGED socket
       ELSE /\ Then(downcallCh[smTaken + 1], LAMBDA e :
                socket' = Append(socket,
                    [kind |-> "PDataTf",
                     contextID |->
                        lookupByAbstractSyntaxUID(cm, e.abstractSyntaxName)
                            .context.contextID,
                     command |-> EncodeMessage(e.command),
                     commandValue |-> e.command,
                     data |-> e.data]))
            /\ UNCHANGED <<userSta, suStatus, upcallCh>>
    /\ UNCHANGED <<suPc, serverUp, faults, cm, storeDs, downcallCh, received,
                   cstoreStatus, cstoreData, cstoreErr,
                   otherThanStore>>

\* The provider receives the C-STORE-RQ and runs onCStoreRequest, which
\* keeps the data and returns cstoreStatus; the C-STORE-RSP with that status
\* reaches the upcall channel of the user's command.
OnCStoreRequest ==
    /\ userSta = "sta06"
    /\ socket # <<>> /\ socket[Len(socket)].kind = "PDataTf"
    /\ upcallCh.events = <<>> /\ received = 0
    /\ cstoreData' = socket[Len(socket)].data
    /\ Then(socket[Len(socket)].commandValue, LAMBDA rq :
        upcallCh' = [upcallCh EXCEPT !.events = Append(@,
            [eventType |-> "upcallEventData",
             command |->
                [AffectedSOPClassUID |-> rq.AffectedSOPClassUID,
                 MessageIDBeingRespondedTo |-> rq.MessageID,
                 CommandDataSetType |-> 257,
                 AffectedSOPInstanceUID |-> rq.AffectedSOPInstanceUID,
                 Status |-> cstoreStatus]])])
    /\ UNCHANGED <<suStatus, suPc, userSta, serverUp, faults, cm, storeDs,
                   downcallCh, smTaken, received, socket, cstoreStatus,
                   cstoreErr, otherThanStore>>

\* runCStoreOnAssociation's receive on upcallCh returns, with the response
\* or because the channel is closed, and CStore returns.
CStoreReturn ==
    /\ suPc = "waiting"
    /\ upcallCh.events # <<>> \/ upcallCh.closed
    /\ cstoreErr' = runCStoreOnAssociation_Response(upcallCh)
    /\ received' = received + Min(1, Len(upcallCh.events))
    /\ upcallCh' = [upcallCh EXCEPT
                      !.events = IF @ = <<>> THEN @ ELSE Tail(@)]
    /\ suPc' = "stored"
    /\ UNCHANGED <<suStatus, userSta, serverUp, faults, cm, storeDs,
                   downcallCh, smTaken, socket, cstoreStatus, cstoreData,
                   otherThanStore>>

\* su.Release() sending the release request whatever the status is.
StoreRelease_AlwaysSends ==
    /\ suPc \in {"new", "connected", "stored"}
    /\ suPc' = "releasing"
    /\ downcallCh' = Append(downcallCh, [event |-> "evt11"])
    /\ UNCHANGED <<suStatus, userSta, serverUp, faults, cm, storeDs, smTaken,
                   upcallCh, received, socket, cstoreStatus, cstoreData,
                   cstoreErr, otherThanStore>>

\* su.Release(): nothing to do unless the association is active; then the
\* release request (evt11) goes to the state machine.
StoreRelease ==
    /\ suPc \in {"new", "connected", "stored"}
    /\ IF suStatus # "serviceUserAssociationActive"
       THEN suPc' = "released" /\ UNCHANGED downcallCh
       ELSE /\ suPc' = "releasing"
            /\ downcallCh' = Append(downcallCh, [event |-> "evt11"])
    /\ UNCHANGED <<suStatus, userSta, serverUp, faults, cm, storeDs, smTaken,
                   upcallCh, received, socket, cstoreStatus, cstoreData,
                   cstoreErr, otherThanStore>>

\* The state machine takes the release request in sta06 and sends the
\* A-RELEASE-RQ, unless the fault injector cuts the connection.
StoreSendRelease ==
    /\ userSta = "sta06"
    /\ smTaken < Len(downcallCh)
    /\ downcallCh[smTaken + 1].event = "evt11"
    /\ smTaken' = smTaken + 1
    /\ IF faults.connected
       THEN Disconnected /\ UNCHANGED socket
       ELSE /\ socket' = Append(socket, [kind |-> "AReleaseRq"])
            /\ userSta' = "sta07"
            /\ UNCHANGED <<suStatus, upcallCh>>
    /\ UNCHANGED <<suPc, serverUp, faults, cm, storeDs, downcallCh, received,
                   cstoreStatus, cstoreData, cstoreErr,
                   otherThanStore>>

\* The A-RELEASE-RP arrives: the connection is closed.
StoreReleaseRp ==
    /\ userSta = "sta07"
    /\ Disconnected
    /\ UNCHANGED <<suPc, serverUp, faults, cm, storeDs, downcallCh, smTaken,
                   received, socket, cstoreStatus, cstoreData, cstoreErr,
                   otherThanStore>>

\* Release() returns once the ServiceUser is closed.
StoreReleased ==
    /\ suPc = "releasing"
    /\ suStatus = "serviceUserClosed"
    /\ suPc' = "released"
    /\ UNCHANGED <<suStatus, userSta, serverUp, faults, cm, storeDs,
                   downcallCh, smTaken, upcallCh, received, socket,
                   cstoreStatus, cstoreData, cstoreErr,
                   otherThanStore>>

NextStore ==
    \/ StoreConnect
    \/ StoreAccept
    \/ StoreReject
    \/ CStoreCall
    \/ StoreSendData
    \/ OnCStoreRequest
    \/ CStoreReturn
    \/ StoreRelease
    \/ StoreSendRelease
    \/ StoreReleaseRp
    \/ StoreReleased

SpecStore == InitStore /\ [][NextStore]_vars

-----------------------------------------------------------------------------
(* The C-FIND exchange of TestFind: a connected ServiceUser calls CFind,   *)
(* the provider runs onCFindRequest, which emits its results on a channel  *)
(* and closes it; the provider sends each result in a C-FIND response of   *)
(* pending status and a last response of success status; CFind passes the  *)
(* results on through the channel it returned and closes it at the end.    *)

InitFind ==
    /\ findPc = "connected"
    /\ findLeft \in SeqsUpTo(FoundNames, MaxFindResults)
    /\ findEmitted = <<>>
    /\ findCh = OpenChannel
    /\ findWire = <<>>
    /\ findStream = OpenChannel
    /\ namesFound = <<>>
    /\ IdleCodec
    /\ IdleDimse
    /\ IdleEcho
    /\ IdleStore
    /\ IdleSm
    /\ IdleFrag
    /\ IdleCtx
    /\ IdleTs
    /\ IdleAsm
    /\ IdleRel
    /\ IdleItem
    /\ IdlePdv
    /\ IdleSize

\* su.CFind(QRLevelPatient, filter): the C-FIND request reaches the provider
\* and its handler starts.
CFindCall ==
    /\ findPc = "connected"
    /\ findPc' = "finding"
    /\ UNCHANGED <<findLeft, findEmitted, findCh, findWire, findStream,
                   namesFound, otherThanFind>>

\* onCFindRequest: ch <- CFindResult{...}
OnCFindRequestEmit ==
    /\ findPc = "finding"
    /\ findLeft # <<>>
    /\ findCh' = [findCh EXCEPT !.events = Append(@, CFindResult(Head(findLeft)))]
    /\ findEmitted' = Append(findEmitted, CFindResult(Head(findLeft)))
    /\ findLeft' = Tail(findLeft)
    /\ UNCHANGED <<findPc, findWire, findStream, namesFound, otherThanFind>>

\* onCFindRequest: close(ch)
OnCFindRequestClose ==
    /\ findPc = "finding"
    /\ findLeft = <<>>
    /\ ~findCh.closed
    /\ findCh' = [findCh EXCEPT !.closed = TRUE]
    /\ UNCHANGED <<findPc, findLeft, findEmitted, findWire, findStream,
                   namesFound, otherThanFind>>

\* The provider takes a result from the handler's channel and sends it in
\* a C-FIND response of pending status (0xFF00).
CFindRspPending ==
    /\ findCh.events # <<>>
    /\ findWire' = Append(findWire,
                          [Status |-> 65280, result |-> Head(findCh.events)])
    /\ findCh' = [findCh EXCEPT !.events = Tail(@)]
    /\ UNCHANGED <<findPc, findLeft, findEmitted, findStream, namesFound,
                   otherThanFind>>

\* The handler's channel is closed and empty: the provider sends the last
\* C-FIND response, of success status and without data.
CFindRspSuccess ==
    /\ findPc = "finding"
    /\ findCh.events = <<>> /\ findCh.closed
    /\ findWire' = Append(findWire, [Status |-> 0, result |-> CFindResult("")])
    /\ findPc' = "answered"
    /\ UNCHANGED <<findLeft, findEmitted, findCh, findStream, namesFound,
                   otherThanFind>>

\* CFind receiving a response and putting its result in front of the
\* results already passed on.
CFindReceive_Prepend ==
    /\ findWire # <<>>
    /\ findWire' = Tail(findWire)
    /\ IF Head(findWire).Status = 65280
       THEN /\ findStream' = [findStream EXCEPT
                                !.events = <<Head(findWire).result>> \o @]
            /\ UNCHANGED findPc
       ELSE /\ findStream' = [findStream EXCEPT !.closed = TRUE]
            /\ findPc' = "done"
    /\ UNCHANGED <<findLeft, findEmitted, findCh, namesFound, otherThanFind>>

\* CFind receives a response: the result of a pending response goes to the
\* channel CFind returned; the success response closes that channel.
CFindReceive ==
    /\ findWire # <<>>
    /\ findWire' = Tail(findWire)
    /\ IF Head(findWire).Status = 65280
       THEN /\ findStream' = [findStream EXCEPT
                                !.events = Append(@, Head(findWire).result)]
            /\ UNCHANGED findPc
       ELSE /\ findStream' = [findStream EXCEPT !.closed = TRUE]
            /\ findPc' = "done"
    /\ UNCHANGED <<findLeft, findEmitted, findCh, namesFound, otherThanFind>>

\* TestFind: for result := range su.CFind(...) { ... namesFound = append(
\* namesFound, elem.Value) }; findStream.events keeps what was sent, and the
\* loop has taken as many results as it has collected names.
TestFindTake ==
    /\ Len(namesFound) < Len(findStream.events)
    /\ namesFound' =
            Append(namesFound,
                   findStream.events[Len(namesFound) + 1].Elements[1].value)
    /\ UNCHANGED <<findPc, findLeft, findEmitted, findCh, findWire,
                   findStream, otherThanFind>>

NextFind ==
    \/ CFindCall
    \/ OnCFindRequestEmit
    \/ OnCFindRequestClose
    \/ CFindRspPending
    \/ CFindRspSuccess
    \/ CFindReceive
    \/ TestFindTake

SpecFind == InitFind /\ [][NextFind]_vars

-----------------------------------------------------------------------------
(* The association state machine: the states sta01..sta13 and the events   *)
(* evt01..evt19 of DICOM Part 8, section 9.2, and the table that gives the *)
(* action of a state and an event.  A pair the table does not hold is a    *)
(* protocol violation: the machine sends an A-ABORT (unexpected PDU) and   *)
(* goes to sta13.                                                          *)

stateTypes ==
    {"sta01", "sta02", "sta03", "sta04", "sta05", "sta06", "sta07", "sta08",
     "sta09", "sta10", "sta11", "sta12", "sta13"}

\* evt01 A-ASSOCIATE request, evt02 transport connection confirmed, evt03
\* A-ASSOCIATE-AC received, evt04 A-ASSOCIATE-RJ received, evt05 transport
\* connection indication, evt06 A-ASSOCIATE-RQ received, evt07 and evt08
\* A-ASSOCIATE response (accept, reject), evt09 P-DATA request, evt10
\* P-DATA-TF received, evt11 A-RELEASE request, evt12 A-RELEASE-RQ received,
\* evt13 A-RELEASE-RP received, evt14 A-RELEASE response, evt15 A-ABORT
\* request, evt16 A-ABORT received, evt17 transport connection closed, evt18
\* ARTIM timer expired, evt19 invalid PDU received.
eventTypes ==
    {"evt01", "evt02", "evt03", "evt04", "evt05", "evt06", "evt07", "evt08",
     "evt09", "evt10", "evt11", "evt12", "evt13", "evt14", "evt15", "evt16",
     "evt17", "evt18", "evt19"}

\* The states in which an association exists or is being set up or released.
AssociationStates ==
    {"sta03", "sta05", "sta06", "sta07", "sta08", "sta09", "sta10", "sta11",
     "sta12"}

\* The table: <<state, event, action>>.
stateTransitions ==
    { <<"sta01", "evt01", "AE-1">>, <<"sta04", "evt02", "AE-2">>,
      <<"sta05", "evt03", "AE-3">>, <<"sta05", "evt04", "AE-4">>,
      <<"sta01", "evt05", "AE-5">>, <<"sta02", "evt06", "AE-6">>,
      <<"sta03", "evt07", "AE-7">>, <<"sta03", "evt08", "AE-8">>,
      <<"sta06", "evt09", "DT-1">>, <<"sta08", "evt09", "AR-7">>,
      <<"sta06", "evt10", "DT-2">>, <<"sta07", "evt10", "AR-6">>,
      <<"sta06", "evt11", "AR-1">>,
      <<"sta06", "evt12", "AR-2">>, <<"sta07", "evt12", "AR-8">>,
      <<"sta07", "evt13", "AR-3">>, <<"sta11", "evt13", "AR-3">>,
      <<"sta10", "evt13", "AR-10">>,
      <<"sta08", "evt14", "AR-4">>, <<"sta12", "evt14", "AR-4">>,
      <<"sta09", "evt14", "AR-9">>,
      <<"sta04", "evt15", "AA-2">>,
      <<"sta02", "evt16", "AA-2">>, <<"sta13", "evt16", "AA-2">>,
      <<"sta02", "evt17", "AA-5">>, <<"sta04", "evt17", "AA-4">>,
      <<"sta13", "evt17", "AR-5">>,
      <<"sta02", "evt18", "AA-2">>, <<"sta13", "evt18", "AA-2">>,
      <<"sta13", "evt06", "AA-7">>, <<"sta13", "evt19", "AA-7">> }
    \cup { <<"sta02", e, "AA-1">> :
                e \in {"evt03", "evt04", "evt10", "evt12", "evt13", "evt19"} }
    \cup { <<"sta13", e, "AA-6">> :
                e \in {"evt03", "evt04", "evt10", "evt12", "evt13"} }
    \cup { <<st, "evt15", "AA-1">> : st \in AssociationStates }
    \cup { <<st, "evt16", "AA-3">> : st \in AssociationStates }
    \cup { <<st, "evt17", "AA-4">> : st \in AssociationStates }
    \cup ({ <<st, e, "AA-8">> :
                st \in AssociationStates,
                e \in {"evt03", "evt04", "evt06", "evt10", "evt12", "evt13",
                       "evt19"} }
        \ { <<"sta05", "evt03", "AA-8">>, <<"sta05", "evt04", "AA-8">>,
            <<"sta06", "evt10", "AA-8">>, <<"sta07", "evt10", "AA-8">>,
            <<"sta06", "evt12", "AA-8">>, <<"sta07", "evt12", "AA-8">>,
            <<"sta07", "evt13", "AA-8">>, <<"sta10", "evt13", "AA-8">>,
            <<"sta11", "evt13", "AA-8">> })

\* What running an action can give: the PDU it sends ("none" for none) and
\* the next state.  AE-6 accepts or rejects the A-ASSOCIATE-RQ; AR-8 depends
\* on which side requested the association.
ActionOutcomes(action) ==
    CASE action = "AE-1" -> {[sent |-> "none", next |-> "sta04"]}
      [] action = "AE-2" -> {[sent |-> "A-ASSOCIATE-RQ", next |-> "sta05"]}
      [] action = "AE-3" -> {[sent |-> "none", next |-> "sta06"]}
      [] action = "AE-4" -> {[sent |-> "none", next |-> "sta01"]}
      [] action = "AE-5" -> {[sent |-> "none", next |-> "sta02"]}
      [] action = "AE-6" -> {[sent |-> "none", next |-> "sta03"],
                             [sent |-> "A-ASSOCIATE-RJ", next |-> "sta13"]}
      [] action = "AE-7" -> {[sent |-> "A-ASSOCIATE-AC", next |-> "sta06"]}
      [] action = "AE-8" -> {[sent |-> "A-ASSOCIATE-RJ", next |-> "sta13"]}
      [] action = "DT-1" -> {[sent |-> "P-DATA-TF", next |-> "sta06"]}
      [] action = "DT-2" -> {[sent |-> "none", next |-> "sta06"]}
      [] action = "AR-1" -> {[sent |-> "A-RELEASE-RQ", next |-> "sta07"]}
      [] action = "AR-2" -> {[sent |-> "none", next |-> "sta08"]}
      [] action = "AR-3" -> {[sent |-> "none", next |-> "sta01"]}
      [] action = "AR-4" -> {[sent |-> "A-RELEASE-RP", next |-> "sta13"]}
      [] action = "AR-5" -> {[sent |-> "none", next |-> "sta01"]}
      [] action = "AR-6" -> {[sent |-> "none", next |-> "sta07"]}
      [] action = "AR-7" -> {[sent |-> "P-DATA-TF", next |-> "sta08"]}
      [] action = "AR-8" -> {[sent |-> "none", next |-> "sta09"],
                             [sent |-> "none", next |-> "sta10"]}
      [] action = "AR-9" -> {[sent |-> "A-RELEASE-RP", next |-> "sta11"]}
      [] action = "AR-10" -> {[sent |-> "none", next |-> "sta12"]}
      [] action = "AA-1" -> {[sent |-> "A-ABORT", next |-> "sta13"]}
      [] action = "AA-2" -> {[sent |-> "none", next |-> "sta01"]}
      [] action = "AA-3" -> {[sent |-> "none", next |-> "sta01"]}
      [] action = "AA-4" -> {[sent |-> "none", next |-> "sta01"]}
      [] action = "AA-5" -> {[sent |-> "none", next |-> "sta01"]}
      [] action = "AA-6" -> {[sent |-> "none", next |-> "sta13"]}
      [] action = "AA-7" -> {[sent |-> "A-ABORT", next |-> "sta13"]}
      [] action = "AA-8" -> {[sent |-> "A-ABORT", next |-> "sta13"]}
      [] action = "ProtocolViolation" ->
            {[sent |-> "A-ABORT(unexpected-PDU)", next |-> "sta13"]}
      [] OTHER -> {}

\* The table's lookup with nothing for a pair the table does not hold.
findAction_NoViolationEntry(state, event) ==
    IF \E t \in stateTransitions : t[1] = state /\ t[2] = event
    THEN (CHOOSE t \in stateTransitions : t[1] = state /\ t[2] = event)[3]
    ELSE "nil"

\* The table's lookup: the action of the pair, the protocol violation for
\* a pair the table does not hold.
findAction(state, event) ==
    IF \E t \in stateTransitions : t[1] = state /\ t[2] = event
    THEN (CHOOSE t \in stateTransitions : t[1] = state /\ t[2] = event)[3]
    ELSE "ProtocolViolation"

InitSm ==
    /\ IdleSm
    /\ IdleCodec
    /\ IdleDimse
    /\ IdleEcho
    /\ IdleStore
    /\ IdleFind
    /\ IdleFrag
    /\ IdleCtx
    /\ IdleTs
    /\ IdleAsm
    /\ IdleRel
    /\ IdleItem
    /\ IdlePdv
    /\ IdleSize

\* The ARTIM timer after an action: armed on entry to sta02 and on sending
\* an A-RELEASE-RQ; stopped when it has expired, when the awaited PDU has
\* arrived (the A-ASSOCIATE-RQ in sta02, the A-RELEASE-RP) and when the
\* association is discarded (sta01, sta13).
artimAfter(timer, event, outcome) ==
    IF outcome.next = "sta02" \/ outcome.sent = "A-RELEASE-RQ" THEN "armed"
    ELSE IF event \in {"evt06", "evt13", "evt18"}
            \/ outcome.next \in {"sta01", "sta13"}
    THEN "stopped"
    ELSE timer

\* The machine handles one event: it looks the action up, runs it and
\* enters the next state.
handleEvent(event) ==
    \E outcome \in ActionOutcomes(findAction(smCurrent, event)) :
        /\ smFrom' = smCurrent
        /\ smEvent' = event
        /\ smAction' = findAction(smCurrent, event)
        /\ smSent' = outcome.sent
        /\ smCurrent' = outcome.next
        /\ smTimer' = artimAfter(smTimer, event, outcome)
        /\ UNCHANGED otherThanSm

\* The machine takes an event from the reader or the service API, whatever
\* the event, and handles it.
runOneStep == \E event \in eventTypes : handleEvent(event)

NextSm == runOneStep

SpecSm == InitSm /\ [][NextSm]_vars

\* The machine with its timer: the timer expires only while it is armed;
\* the other events come as in SpecSm.
ArtimExpires ==
    /\ smTimer = "armed"
    /\ handleEvent("evt18")

ArtimOtherEvent == \E event \in eventTypes \ {"evt18"} : handleEvent(event)

NextArtim == ArtimExpires \/ ArtimOtherEvent

SpecArtim == InitSm /\ [][NextArtim]_vars

-----------------------------------------------------------------------------
(* Outbound fragmentation and reassembly.  The machine is handed the       *)
(* command bytes and the data bytes of one message, splits each stream     *)
(* into P-DATA-TF PDUs for the peer's maximum PDU size and writes them;    *)
(* the peer reads them with ReadPDU and appends each PDV to the rolling    *)
(* buffer of its context ID and kind, delivering the buffer on last=1.     *)

MaxStreamLen == 5     \* longest command or data stream tried
MaxChunk == 3         \* largest chunk the peer's maximum PDU size allows

\* The bytes PresentationDataValueItem.Write puts before the value: the
\* length field (4), the context ID (1) and the header (1).
pdvOverhead == 6

\* The largest value one PDU can carry to a peer accepting bodies of m bytes.
maxChunkSize(m) == m - pdvOverhead

\* The peer's maximum PDU sizes tried: chunks of 1..MaxChunk bytes.
PeerMaxPDUSizes == {pdvOverhead + n : n \in 1..MaxChunk}

\* The maxPDUSize the peer's reader passes to ReadPDU.
ReaderMaxPDUSize == [top |-> 0, hi |-> 0, lo |-> 16]

\* A stream of n bytes, each byte telling its position and its stream.
StreamOfLen(first, n) == [i \in 1..n |-> first + i]

\* One stream cut into P-DATA-TF PDUs of one PDV each; the last one has
\* last=1.
RECURSIVE splitDataIntoPDUs(_, _, _, _)
splitDataIntoPDUs(contextID, command, data, m) ==
    IF data = <<>> THEN <<>>
    ELSE <<[kind |-> "PDataTf",
            Items |-> <<[ContextID |-> contextID,
                         Command |-> command,
                         Last |-> Len(data) <= maxChunkSize(m),
                         Value |-> SubSeq(data, 1,
                                      Min(Len(data), maxChunkSize(m)))]>>]>>
            \o splitDataIntoPDUs(contextID, command,
                    SubSeq(data, Min(Len(data), maxChunkSize(m)) + 1,
                           Len(data)), m)

\* The peer's reassembly of the PDVs of one PDU: each PDV is appended to
\* the buffer of its context ID and kind; on last=1 the buffer is delivered
\* upward and cleared.  st is [buf, up, seen].
RECURSIVE addPDVs(_, _)
addPDVs(items, st) ==
    IF items = <<>> THEN st
    ELSE addPDVs(Tail(items),
            [seen |-> Append(st.seen, Head(items)),
             buf |-> [st.buf EXCEPT
                ![Head(items).ContextID] =
                    IF Head(items).Command
                    THEN [@ EXCEPT !.command =
                            IF Head(items).Last THEN <<>>
                            ELSE @ \o Head(items).Value]
                    ELSE [@ EXCEPT !.data =
                            IF Head(items).Last THEN <<>>
                            ELSE @ \o Head(items).Value]],
             up |-> IF ~Head(items).Last THEN st.up
                    ELSE Append(st.up,
                        [contextID |-> Head(items).ContextID,
                         command |-> Head(items).Command,
                         bytes |->
                            (IF Head(items).Command
                             THEN st.buf[Head(items).ContextID].command
                             ELSE st.buf[Head(items).ContextID].data)
                                \o Head(items).Value])])

InitFrag ==
    /\ fragM \in PeerMaxPDUSizes
    /\ fragCtx \in {1, 3}
    /\ fragCmd \in {StreamOfLen(10, n) : n \in 1..MaxStreamLen}
    /\ fragData \in {StreamOfLen(20, n) : n \in 0..MaxStreamLen}
    /\ fragPc = "idle"
    /\ fragQueue = <<>>
    /\ fragWire = <<>>
    /\ fragRead = 0
    /\ fragSeen = <<>>
    /\ fragBuf = NoBuffers
    /\ fragUp = <<>>
    /\ IdleCodec
    /\ IdleDimse
    /\ IdleEcho
    /\ IdleStore
    /\ IdleFind
    /\ IdleSm
    /\ IdleCtx
    /\ IdleTs
    /\ IdleAsm
    /\ IdleRel
    /\ IdleItem
    /\ IdlePdv
    /\ IdleSize

\* The P-DATA request: the command stream is split, then the data stream.
FragSplit ==
    /\ fragPc = "idle"
    /\ fragPc' = "sending"
    /\ fragQueue' = splitDataIntoPDUs(fragCtx, TRUE, fragCmd, fragM)
                        \o splitDataIntoPDUs(fragCtx, FALSE, fragData, fragM)
    /\ UNCHANGED <<fragM, fragCtx, fragCmd, fragData, fragWire, fragRead,
                   fragSeen, fragBuf, fragUp, otherThanFrag>>

\* The machine writes the next PDU to the connection.
FragWrite ==
    /\ fragPc = "sending"
    /\ fragQueue # <<>>
    /\ fragWire' = Append(fragWire, EncodePDU(Head(fragQueue)))
    /\ fragQueue' = Tail(fragQueue)
    /\ UNCHANGED <<fragM, fragCtx, fragCmd, fragData, fragPc, fragRead,
                   fragSeen, fragBuf, fragUp, otherThanFrag>>

\* The peer's reader reads the next PDU and the peer's machine reassembles
\* its PDVs; anything but a P-DATA-TF read without error ends the exchange.
FragReceive ==
    /\ fragPc = "sending"
    /\ fragRead < Len(fragWire)
    /\ fragRead' = fragRead + 1
    /\ Then(ReadPDU(fragWire[fragRead + 1], ReaderMaxPDUSize), LAMBDA r :
        IF r.st = "ok" /\ r.err = "nil" /\ r.pdu # NilPDU
            /\ r.pdu.kind = "PDataTf"
        THEN Then(addPDVs(r.pdu.Items,
                    [seen |-> fragSeen, buf |-> fragBuf, up |-> fragUp]),
                LAMBDA st :
                    /\ fragSeen' = st.seen
                    /\ fragBuf' = st.buf
                    /\ fragUp' = st.up
                    /\ fragPc' = fragPc)
        ELSE /\ fragPc' = "aborted"
             /\ UNCHANGED <<fragSeen, fragBuf, fragUp>>)
    /\ UNCHANGED <<fragM, fragCtx, fragCmd, fragData, fragQueue, fragWire,
                   otherThanFrag>>

NextFrag == FragSplit \/ FragWrite \/ FragReceive

SpecFrag == InitFrag /\ [][NextFrag]_vars

-----------------------------------------------------------------------------
(* Presentation-context negotiation.  The requester walks its list of      *)
(* abstract syntaxes, gives each the running context ID and adds 2 to it;  *)
(* the ID is a byte (PresentationContextItem.ContextID).  The acceptor     *)
(* answers each context of the request with the ID it came with.           *)

MaxSyntaxes == 129    \* longest list of abstract syntaxes offered

InitCtx ==
    /\ ctxOffered \in 1..MaxSyntaxes
    /\ ctxNextID = 1
    /\ ctxAssigned = <<>>
    /\ ctxAnswered = <<>>
    /\ IdleCodec
    /\ IdleDimse
    /\ IdleEcho
    /\ IdleStore
    /\ IdleFind
    /\ IdleSm
    /\ IdleFrag
    /\ IdleTs
    /\ IdleAsm
    /\ IdleRel
    /\ IdleItem
    /\ IdlePdv
    /\ IdleSize

\* The requester gives the next abstract syntax of its list a context ID.
generateAssociateRequest ==
    /\ Len(ctxAssigned) < ctxOffered
    /\ ctxAssigned' = Append(ctxAssigned, ctxNextID)
    /\ ctxNextID' = (ctxNextID + 2) % 256
    /\ UNCHANGED <<ctxOffered, ctxAnswered, otherThanCtx>>

\* The acceptor answers the next context of the request.
onAssociateRequest ==
    /\ Len(ctxAssigned) = ctxOffered
    /\ Len(ctxAnswered) < Len(ctxAssigned)
    /\ ctxAnswered' = Append(ctxAnswered, ctxAssigned[Len(ctxAnswered) + 1])
    /\ UNCHANGED <<ctxOffered, ctxNextID, ctxAssigned, otherThanCtx>>

NextCtx == generateAssociateRequest \/ onAssociateRequest

SpecCtx == InitCtx /\ [][NextCtx]_vars

-----------------------------------------------------------------------------
(* The transfer syntax helpers.  UIDs are written by the names the dicomuid *)
(* package gives them.                                                      *)

MaxOffered == 2       \* longest list of UIDs canonicalised in one run

StandardTransferSyntaxes ==
    <<"ImplicitVRLittleEndian", "ExplicitVRLittleEndian",
      "ExplicitVRBigEndian", "DeflatedExplicitVRLittleEndian">>

\* The part of the UID dictionary the runs draw from: the standard
\* transfer syntaxes, two compressed ones, two SOP classes and a well-known
\* frame of reference.
UIDDictionary ==
    [u \in {StandardTransferSyntaxes[i] : i \in 1..4}
            \cup {"JPEGBaseline8Bit", "JPEG2000Lossless"}
        |-> "TypeTransferSyntax"]
    @@ [u \in {"Verification", "CTImageStorage"} |-> "TypeSOPClass"]
    @@ [u \in {"TalairachBrainAtlas"} |-> "TypeWellKnownFrameOfReference"]

\* The UIDs tried: the dictionary's, one the dictionary does not hold and
\* the empty string.
UIDInputs == DOMAIN UIDDictionary \cup {"1.2.3", ""}

\* dicomuid.Lookup: the dictionary's entry of a UID, an error without one.
Lookup(uid) ==
    IF uid \in DOMAIN UIDDictionary
    THEN [Type |-> UIDDictionary[uid], err |-> "nil"]
    ELSE [Type |-> "", err |-> "unknown UID"]

\* CanonicalTransferSyntaxUID with a default case that returns its argument.
CanonicalTransferSyntaxUID_KeepsUID(uid) ==
    IF uid \in {"ImplicitVRLittleEndian", "ExplicitVRLittleEndian",
                "ExplicitVRBigEndian", "DeflatedExplicitVRLittleEndian"}
    THEN [uid |-> uid, err |-> "nil"]
    ELSE IF Lookup(uid).err # "nil"
    THEN [uid |-> "", err |-> Lookup(uid).err]
    ELSE IF Lookup(uid).Type # "TypeTransferSyntax"
    THEN [uid |-> "", err |-> "is not a transfer syntax"]
    ELSE [uid |-> uid, err |-> "nil"]

\* CanonicalTransferSyntaxUID(uid) returns [uid, err].
CanonicalTransferSyntaxUID(uid) ==
    IF uid \in {"ImplicitVRLittleEndian", "ExplicitVRLittleEndian",
                "ExplicitVRBigEndian", "DeflatedExplicitVRLittleEndian"}
    THEN [uid |-> uid, err |-> "nil"]
    ELSE IF Lookup(uid).err # "nil"
    THEN [uid |-> "", err |-> Lookup(uid).err]
    ELSE IF Lookup(uid).Type # "TypeTransferSyntax"
    THEN [uid |-> "", err |-> "is not a transfer syntax"]
    ELSE [uid |-> "ExplicitVRLittleEndian", err |-> "nil"]

\* ParseTransferSyntaxUID without the case of the deflated transfer syntax,
\* which then reaches the default case.
ParseTransferSyntaxUID_NoDeflatedCase(uid) ==
    Then(CanonicalTransferSyntaxUID(uid), LAMBDA canonical :
        IF canonical.err # "nil"
        THEN [bo |-> "nil", implicit |-> "UnknownVR", err |-> canonical.err,
              st |-> "ok"]
        ELSE CASE canonical.uid = "ImplicitVRLittleEndian" ->
                    [bo |-> "LittleEndian", implicit |-> "ImplicitVR",
                     err |-> "nil", st |-> "ok"]
               [] canonical.uid = "ExplicitVRLittleEndian" ->
                    [bo |-> "LittleEndian", implicit |-> "ExplicitVR",
                     err |-> "nil", st |-> "ok"]
               [] canonical.uid = "ExplicitVRBigEndian" ->
                    [bo |-> "BigEndian", implicit |-> "ExplicitVR",
                     err |-> "nil", st |-> "ok"]
               [] OTHER ->
                    [bo |-> "nil", implicit |-> "UnknownVR", err |-> "nil",
                     st |-> "panic"])

\* ParseTransferSyntaxUID(uid) returns [bo, implicit, err]; st is "panic"
\* when the default case of its switch is reached and it does not return.
ParseTransferSyntaxUID(uid) ==
    Then(CanonicalTransferSyntaxUID(uid), LAMBDA canonical :
        IF canonical.err # "nil"
        THEN [bo |-> "nil", implicit |-> "UnknownVR", err |-> canonical.err,
              st |-> "ok"]
        ELSE CASE canonical.uid = "ImplicitVRLittleEndian" ->
                    [bo |-> "LittleEndian", implicit |-> "ImplicitVR",
                     err |-> "nil", st |-> "ok"]
               [] canonical.uid \in {"DeflatedExplicitVRLittleEndian",
                                     "ExplicitVRLittleEndian"} ->
                    [bo |-> "LittleEndian", implicit |-> "ExplicitVR",
                     err |-> "nil", st |-> "ok"]
               [] canonical.uid = "ExplicitVRBigEndian" ->
                    [bo |-> "BigEndian", implicit |-> "ExplicitVR",
                     err |-> "nil", st |-> "ok"]
               [] OTHER ->
                    [bo |-> "nil", implicit |-> "UnknownVR", err |-> "nil",
                     st |-> "panic"])

InitTs ==
    /\ tsOffered \in SeqsUpTo(UIDInputs, MaxOffered) \ {<<>>}
    /\ tsCanonical = <<>>
    /\ tsAgain = <<>>
    /\ tsParsed = <<>>
    /\ IdleCodec
    /\ IdleDimse
    /\ IdleEcho
    /\ IdleStore
    /\ IdleFind
    /\ IdleSm
    /\ IdleFrag
    /\ IdleCtx
    /\ IdleAsm
    /\ IdleRel
    /\ IdleItem
    /\ IdlePdv
    /\ IdleSize

\* The next UID of the list is canonicalised.
Canonicalize ==
    /\ Len(tsCanonical) < Len(tsOffered)
    /\ tsCanonical' = Append(tsCanonical,
            CanonicalTransferSyntaxUID(tsOffered[Len(tsCanonical) + 1]))
    /\ UNCHANGED <<tsOffered, tsAgain, tsParsed, otherThanTs>>

\* The next result is canonicalised again; an error is carried over.
CanonicalizeAgain ==
    /\ Len(tsAgain) < Len(tsCanonical)
    /\ tsAgain' = Append(tsAgain,
            IF tsCanonical[Len(tsAgain) + 1].err # "nil"
            THEN tsCanonical[Len(tsAgain) + 1]
            ELSE CanonicalTransferSyntaxUID(
                    tsCanonical[Len(tsAgain) + 1].uid))
    /\ UNCHANGED <<tsOffered, tsCanonical, tsParsed, otherThanTs>>

\* The next UID of the list is parsed.
Parse ==
    /\ Len(tsParsed) < Len(tsOffered)
    /\ tsParsed' = Append(tsParsed,
            ParseTransferSyntaxUID(tsOffered[Len(tsParsed) + 1]))
    /\ UNCHANGED <<tsOffered, tsCanonical, tsAgain, otherThanTs>>

NextTs == Canonicalize \/ CanonicalizeAgain \/ Parse

SpecTs == InitTs /\ [][NextTs]_vars

-----------------------------------------------------------------------------
(* Reassembly of interleaved streams.  In sta06 the peer sends the PDVs of *)
(* several streams, a stream being a context ID and a kind (command or     *)
(* data), in any interleaving and one or two to a P-DATA-TF; the reader    *)
(* reads each PDU with ReadPDU and the machine reassembles its PDVs.       *)

MaxAsmPDVs == 2       \* PDVs in one stream

\* The streams the peer sends on: <<context ID, command?>>.
AsmStreams == {<<1, TRUE>>, <<1, FALSE>>, <<3, TRUE>>}

\* The i-th PDV of a stream: i bytes that tell the stream and i.
AsmPDV(stream, i, last) ==
    [ContextID |-> stream[1], Command |-> stream[2], Last |-> last,
     Value |-> StreamOfLen(
        (IF stream[1] = 3 THEN 100 ELSE IF stream[2] THEN 0 ELSE 50) + 10 * i,
        i)]

\* The PDVs of a stream: one message ("whole": last=1 on the final PDV), a
\* message per PDV ("each") or a message that does not end ("open").
AsmPDVs(stream, pattern) ==
    [i \in 1..MaxAsmPDVs |->
        AsmPDV(stream, i,
            CASE pattern = "whole" -> i = MaxAsmPDVs
              [] pattern = "each" -> TRUE
              [] pattern = "open" -> FALSE)]

InitAsm ==
    /\ \E pattern \in [AsmStreams -> {"whole", "each", "open"}] :
        asmPending = [stream \in AsmStreams |->
                        AsmPDVs(stream, pattern[stream])]
    /\ asmSent = <<>>
    /\ fragM = 0
    /\ fragCtx = 0
    /\ fragCmd = <<>>
    /\ fragData = <<>>
    /\ fragPc = "sending"
    /\ fragQueue = <<>>
    /\ fragWire = <<>>
    /\ fragRead = 0
    /\ fragSeen = <<>>
    /\ fragBuf = NoBuffers
    /\ fragUp = <<>>
    /\ IdleCodec
    /\ IdleDimse
    /\ IdleEcho
    /\ IdleStore
    /\ IdleFind
    /\ IdleSm
    /\ IdleCtx
    /\ IdleTs
    /\ IdleRel
    /\ IdleItem
    /\ IdlePdv
    /\ IdleSize

\* The peer's P-DATA-TF with the PDVs items arrives: the reader reads its
\* bytes and the machine reassembles its PDVs; anything but a P-DATA-TF read
\* without error ends the exchange.  The bytes are not kept.
AsmArrive(items) ==
    /\ asmSent' = asmSent \o items
    /\ Then(ReadPDU(EncodePDU([kind |-> "PDataTf", Items |-> items]),
                    ReaderMaxPDUSize), LAMBDA r :
        IF r.st = "ok" /\ r.err = "nil" /\ r.pdu # NilPDU
            /\ r.pdu.kind = "PDataTf"
        THEN Then(addPDVs(r.pdu.Items,
                    [seen |-> fragSeen, buf |-> fragBuf, up |-> fragUp]),
                LAMBDA st :
                    /\ fragSeen' = st.seen
                    /\ fragBuf' = st.buf
                    /\ fragUp' = st.up
                    /\ fragPc' = fragPc)
        ELSE /\ fragPc' = "aborted"
             /\ UNCHANGED <<fragSeen, fragBuf, fragUp>>)
    /\ UNCHANGED <<fragM, fragCtx, fragCmd, fragData, fragQueue, fragWire,
                   fragRead>>

\* A P-DATA-TF with the next PDV of one stream.
AsmReceiveOne ==
    /\ fragPc = "sending"
    /\ \E stream \in AsmStreams :
        /\ asmPending[stream] # <<>>
        /\ asmPending' = [asmPending EXCEPT ![stream] = Tail(@)]
        /\ AsmArrive(<<Head(asmPending[stream])>>)
    /\ UNCHANGED <<codecVars, dimseVars, echoVars, storeVars, findVars,
                   smVars, ctxVars, tsVars, relVars, itemVars, pdvVars,
                   sizeVars>>

\* A P-DATA-TF with the next PDVs of two streams, or the next two of one.
AsmReceiveTwo ==
    /\ fragPc = "sending"
    /\ \E first \in AsmStreams :
        /\ asmPending[first] # <<>>
        /\ \E second \in AsmStreams :
            /\ [asmPending EXCEPT ![first] = Tail(@)][second] # <<>>
            /\ asmPending' =
                [[asmPending EXCEPT ![first] = Tail(@)]
                    EXCEPT ![second] = Tail(@)]
            /\ AsmArrive(<<Head(asmPending[first]),
                    Head([asmPending EXCEPT ![first] = Tail(@)][second])>>)
    /\ UNCHANGED <<codecVars, dimseVars, echoVars, storeVars, findVars,
                   smVars, ctxVars, tsVars, relVars, itemVars, pdvVars,
                   sizeVars>>

NextAsm == AsmReceiveOne \/ AsmReceiveTwo

SpecAsm == InitAsm /\ [][NextAsm]_vars

-----------------------------------------------------------------------------
(* Release of an association, both machines.  The two sides are in sta06,  *)
(* each with a P-DATA-TF on its way to the other or not; the user of one   *)
(* side or of both requests the release.  The machines run the table; a    *)
(* user answers a release indication when its machine awaits the answer    *)
(* (sta08, sta09, sta12); a machine that enters sta01 closes its end of    *)
(* the connection and stops.                                               *)

Sides == {"requestor", "acceptor"}

Peer(side) == IF side = "requestor" THEN "acceptor" ELSE "requestor"

\* The event the reader makes of a PDU.
eventOfPDU(pdu) ==
    CASE pdu = "A-ASSOCIATE-AC" -> "evt03"
      [] pdu = "A-ASSOCIATE-RJ" -> "evt04"
      [] pdu = "A-ASSOCIATE-RQ" -> "evt06"
      [] pdu = "P-DATA-TF" -> "evt10"
      [] pdu = "A-RELEASE-RQ" -> "evt12"
      [] pdu = "A-RELEASE-RP" -> "evt13"
      [] pdu \in {"A-ABORT", "A-ABORT(unexpected-PDU)"} -> "evt16"
      [] OTHER -> "evt19"

\* Action AR-8 with both sides taken for the acceptor of the association.
outcomesOn_BothWait(side, action) ==
    IF action = "AR-8"
    THEN {o \in ActionOutcomes(action) : o.next = "sta10"}
    ELSE ActionOutcomes(action)

\* What an action can give on one side: AR-8 goes to sta09 on the side that
\* requested the association and to sta10 on the side that accepted it.
outcomesOn(side, action) ==
    IF action = "AR-8"
    THEN {o \in ActionOutcomes(action) :
            o.next = IF side = "requestor" THEN "sta09" ELSE "sta10"}
    ELSE ActionOutcomes(action)

InitRel ==
    /\ relState = [side \in Sides |-> "sta06"]
    /\ \E data \in SUBSET Sides :
        relInbox = [side \in Sides |->
                        IF Peer(side) \in data THEN <<"P-DATA-TF">> ELSE <<>>]
    /\ relWants \in SUBSET Sides \ {{}}
    /\ relClosed = {}
    /\ relEof = {}
    /\ relLog = <<>>
    /\ IdleCodec
    /\ IdleDimse
    /\ IdleEcho
    /\ IdleStore
    /\ IdleFind
    /\ IdleSm
    /\ IdleFrag
    /\ IdleCtx
    /\ IdleTs
    /\ IdleAsm
    /\ IdleItem
    /\ IdlePdv
    /\ IdleSize

\* The machine of one side handles an event; inbox is what is on its way to
\* that side afterwards.  A PDU sent on a connection the peer has closed is
\* lost.
relStep(side, event, inbox) ==
    \E o \in outcomesOn(side, findAction(relState[side], event)) :
        /\ relState' = [relState EXCEPT ![side] = o.next]
        /\ relInbox' =
            [[relInbox EXCEPT ![side] = inbox] EXCEPT ![Peer(side)] =
                IF o.sent = "none" \/ Peer(side) \in relClosed THEN @
                ELSE Append(@, o.sent)]
        /\ relClosed' =
            IF o.next = "sta01" THEN relClosed \cup {side} ELSE relClosed
        /\ relLog' = Append(relLog,
                [side |-> side, event |-> event,
                 action |-> findAction(relState[side], event),
                 sent |-> o.sent])

\* The user of a side requests the release (A-RELEASE request).
RelRequest ==
    \E side \in relWants :
        /\ relState[side] = "sta06"
        /\ relWants' = relWants \ {side}
        /\ relStep(side, "evt11", relInbox[side])
        /\ UNCHANGED <<relEof, otherThanRel>>

\* The reader of a side reads the next PDU and the machine handles it.
RelDeliver ==
    \E side \in Sides :
        /\ relState[side] # "sta01"
        /\ relInbox[side] # <<>>
        /\ relStep(side, eventOfPDU(Head(relInbox[side])),
                   Tail(relInbox[side]))
        /\ UNCHANGED <<relWants, relEof, otherThanRel>>

\* The user of a side answers the release indication (A-RELEASE response).
RelRespond ==
    \E side \in Sides :
        /\ relState[side] \in {"sta08", "sta09", "sta12"}
        /\ relStep(side, "evt14", relInbox[side])
        /\ UNCHANGED <<relWants, relEof, otherThanRel>>

\* The reader of a side finds the connection closed by the peer.
RelTransportClosed ==
    \E side \in Sides \ relEof :
        /\ relState[side] # "sta01"
        /\ relInbox[side] = <<>>
        /\ Peer(side) \in relClosed
        /\ relEof' = relEof \cup {side}
        /\ relStep(side, "evt17", relInbox[side])
        /\ UNCHANGED <<relWants, otherThanRel>>

NextRel == RelRequest \/ RelDeliver \/ RelRespond \/ RelTransportClosed

SpecRel == InitRel /\ [][NextRel]_vars

\* The machines, the readers and the users keep running: a step that can
\* be taken is taken.
SpecRelLive == SpecRel /\ WF_vars(NextRel)

-----------------------------------------------------------------------------
(* The end of an association that is not released: both machines again,    *)
(* from the handshake (the requester awaits the answer in sta05, the        *)
(* acceptor its user's decision in sta03) on.  The acceptor's user accepts *)
(* or rejects; a user aborts; a PDU that is invalid or out of place        *)
(* arrives; the transport fails; the fault injector of the requester cuts  *)
(* the connection at a send.  A reader ends when it finds the connection   *)
(* closed, having pushed the TCP-closed event to its machine.              *)

\* What may be on its way to a side when the scenario begins.
DownInboxes == {<<>>, <<"A-ASSOCIATE-AC">>, <<"invalid">>}

InitDown ==
    /\ relState = [side \in Sides |->
                        IF side = "requestor" THEN "sta05" ELSE "sta03"]
    /\ relInbox \in [Sides -> DownInboxes]
    /\ relWants \in SUBSET Sides
    /\ relClosed = {}
    /\ relEof = {}
    /\ relLog = <<>>
    /\ IdleCodec
    /\ IdleDimse
    /\ IdleEcho
    /\ IdleStore
    /\ IdleFind
    /\ IdleSm
    /\ IdleFrag
    /\ IdleCtx
    /\ IdleTs
    /\ IdleAsm
    /\ IdleItem
    /\ IdlePdv
    /\ IdleSize

\* The acceptor's user accepts or rejects the association (A-ASSOCIATE
\* response).
DownDecide ==
    /\ relState["acceptor"] = "sta03"
    /\ \E event \in {"evt07", "evt08"} :
        relStep("acceptor", event, relInbox["acceptor"])
    /\ UNCHANGED <<relWants, relEof, otherThanRel>>

\* The user of a side aborts the association (A-ABORT request).
DownAbortRequest ==
    \E side \in relWants :
        /\ relState[side] \in {"sta03", "sta05", "sta06"}
        /\ relWants' = relWants \ {side}
        /\ relStep(side, "evt15", relInbox[side])
        /\ UNCHANGED <<relEof, otherThanRel>>

\* The transport fails: what is on its way is lost and both ends are closed.
DownTransportFails ==
    /\ relClosed # Sides
    /\ relClosed' = Sides
    /\ relInbox' = [side \in Sides |-> <<>>]
    /\ relLog' = Append(relLog,
            [side |-> "network", event |-> "failure", action |-> "none",
             sent |-> "none"])
    /\ UNCHANGED <<relState, relWants, relEof, otherThanRel>>

\* The requester's user sends data (P-DATA request, action DT-1) and the
\* fault injector's onSend answers disconnect: the connection is closed in
\* place of the send.
DownSendDisconnect ==
    /\ relState["requestor"] = "sta06"
    /\ "requestor" \notin relClosed
    /\ findAction("sta06", "evt09") = "DT-1"
    /\ relClosed' = relClosed \cup {"requestor"}
    /\ relLog' = Append(relLog,
            [side |-> "requestor", event |-> "evt09", action |-> "DT-1",
             sent |-> "disconnect"])
    /\ UNCHANGED <<relState, relInbox, relWants, relEof, otherThanRel>>

\* The reader that finds its connection closed ends without a word to its
\* machine.
DownReaderEnds_Silently ==
    \E side \in relClosed \ relEof :
        /\ relEof' = relEof \cup {side}
        /\ UNCHANGED <<relState, relInbox, relClosed, relLog>>
        /\ UNCHANGED <<relWants, otherThanRel>>

\* The reader of a side whose end of the connection is closed gets an error
\* and ends; its TCP-closed event is handled if the machine still runs.
DownReaderEnds ==
    \E side \in relClosed \ relEof :
        /\ relEof' = relEof \cup {side}
        /\ IF relState[side] = "sta01"
           THEN UNCHANGED <<relState, relInbox, relClosed, relLog>>
           ELSE relStep(side, "evt17", relInbox[side])
        /\ UNCHANGED <<relWants, otherThanRel>>

NextDown ==
    \/ DownDecide
    \/ DownAbortRequest
    \/ DownTransportFails
    \/ DownSendDisconnect
    \/ RelDeliver
    \/ RelTransportClosed
    \/ DownReaderEnds

SpecDown == InitDown /\ [][NextDown]_vars

\* The machines and the readers keep running; the users and the network
\* are free to do nothing.
SpecDownLive ==
    /\ SpecDown
    /\ WF_vars(RelDeliver)
    /\ WF_vars(RelTransportClosed)
    /\ WF_vars(DownReaderEnds)

-----------------------------------------------------------------------------
(* The sub-item scenario: sub-items are given as the bytes a peer sends,   *)
(* well-formed or not; decodeSubItem reads the first, ReadPDU the          *)
(* A-ASSOCIATE-RQ that holds them, and a presentation context item of a    *)
(* response is written and read back.                                      *)

MaxRawItems == 2      \* sub-items in one A-ASSOCIATE-RQ

\* A sub-item on the wire; Length is the header's length field and Value
\* the bytes that follow the header, Length of them.
RawItem(t, value) == [Type |-> t, Length |-> Len(value), Value |-> value]

RawItemBytes(raw) == encodeSubItemHeader(raw.Type, raw.Length) \o raw.Value

RECURSIVE RawItemsBytes(_)

RawItemsBytes(raws) ==
    IF raws = <<>> THEN <<>>
    ELSE RawItemBytes(Head(raws)) \o RawItemsBytes(Tail(raws))

\* The value of a presentation context item: the context ID, a reserved
\* byte, the result, a reserved byte and one transfer syntax sub-item.
RawContextValue(id, result) ==
    <<id, 0, result, 0>> \o SubItem_Write(TransferSyntax)

\* The sub-items whose length is the one their type expects.
WellFormedRawItems ==
    {RawItem(ItemTypeApplicationContext, UID)}
    \cup {RawItem(ItemTypeUserInformationMaximumLength, U32BE(16384))}
    \cup {RawItem(ItemTypeAsynchronousOperationsWindow, U16BE(a) \o U16BE(b)) :
            a \in {1, 2}, b \in {1, 2}}
    \cup {RawItem(ItemTypeRoleSelection, U16BE(3) \o UID \o <<1, 0>>)}
    \cup {RawItem(t, RawContextValue(id, result)) :
            t \in {ItemTypePresentationContextRequest,
                   ItemTypePresentationContextResponse},
            id \in {0, 1, 2, 3}, result \in {0, 3}}
    \cup {RawItem(ItemTypeUserInformation,
                  RawItemBytes(RawItem(ItemTypeUserInformationMaximumLength,
                                       U32BE(16384))))}

\* The malformed ones: a maximum-length item of length 8, role selections
\* whose UID length is shorter and longer than the item's length allows, a
\* type no decoder knows, and user information items that hold such a type
\* and a sub-item cut short.
MalformedRawItems ==
    {RawItem(ItemTypeUserInformationMaximumLength, U32BE(16384) \o Zeros(4))}
    \cup {RawItem(ItemTypeRoleSelection, U16BE(n) \o UID \o <<1, 0>>) :
            n \in {1, 5}}
    \cup {RawItem(86, <<1, 2>>)}
    \cup {RawItem(ItemTypeUserInformation, RawItemBytes(RawItem(86, <<1, 2>>)))}
    \cup {RawItem(ItemTypeUserInformation,
                  <<ItemTypeUserInformationMaximumLength, 0>>)}

RawItems == WellFormedRawItems \cup MalformedRawItems

\* The presentation context items an acceptor writes: one per result.
ContextResponses ==
    {[kind |-> "PresentationContext",
      Type |-> ItemTypePresentationContextResponse,
      ContextID |-> id, Result |-> result, Items |-> <<TransferSyntax>>] :
        id \in {1, 3}, result \in 0..4}

\* The A-ASSOCIATE-RQ that carries the sub-items.
RawAssociateRq(raws) ==
    Then(AAssociate_WritePayload(
            [ProtocolVersion |-> 1, CalledAETitle |-> TitleOfLen(5),
             CallingAETitle |-> TitleOfLen(5), Items |-> <<>>])
         \o RawItemsBytes(raws), LAMBDA payload :
        <<TypeAAssociateRq, 0>> \o U32BE(Len(payload)) \o payload)

InitItem ==
    /\ itemIn \in SeqsUpTo(RawItems, MaxRawItems) \ {<<>>}
    /\ itemOut = <<>>
    /\ itemRes = <<>>
    /\ itemWire = <<>>
    /\ IdleCodec
    /\ IdleDimse
    /\ IdleEcho
    /\ IdleStore
    /\ IdleFind
    /\ IdleSm
    /\ IdleFrag
    /\ IdleCtx
    /\ IdleTs
    /\ IdleAsm
    /\ IdleRel
    /\ IdlePdv
    /\ IdleSize

\* decodeSubItem on a reader positioned at the first sub-item, with every
\* byte of the sub-items until its limit.
ItemDecode ==
    /\ itemOut = <<>>
    /\ itemOut' = <<decodeSubItem(NewReader(RawItemsBytes(itemIn),
                                            Len(RawItemsBytes(itemIn))))>>
    /\ UNCHANGED <<itemIn, itemRes, itemWire, otherThanItem>>

\* ReadPDU on the A-ASSOCIATE-RQ, with the maxPDUSize the fuzzer passes.
ItemReadPDU ==
    /\ itemRes = <<>>
    /\ itemRes' = <<ReadPDU(RawAssociateRq(itemIn),
                            [top |-> 0, hi |-> 64, lo |-> 0])>>
    /\ UNCHANGED <<itemIn, itemOut, itemWire, otherThanItem>>

\* A presentation context item of a response is written, and the peer
\* decodes what was written.
ItemWrite ==
    /\ itemWire = <<>>
    /\ \E v \in ContextResponses :
        itemWire' = <<[v |-> v,
                       bytes |-> SubItem_Write(v),
                       back |-> decodeSubItem(
                                    NewReader(SubItem_Write(v),
                                              Len(SubItem_Write(v)))).item]>>
    /\ UNCHANGED <<itemIn, itemOut, itemRes, otherThanItem>>

NextItem == ItemDecode \/ ItemReadPDU \/ ItemWrite

SpecItem == InitItem /\ [][NextItem]_vars

-----------------------------------------------------------------------------
(* The PDV scenario: the payload of a P-DATA-TF is given as the bytes a    *)
(* peer sends, with length fields that need not fit the values, and the    *)
(* loop of decodePDataTf runs over it one PDV at a time.                   *)

MaxRawPDVs == 2       \* PDVs in one payload

\* A PDV on the wire: the u32 length field, then the context ID, the header
\* byte and the value, of which the peer may send less than Length says.
RawPDV(length, bytes) == [Length |-> length, Bytes |-> bytes]

RawPDVs ==
    {RawPDV(length, <<1, header>> \o [i \in 1..n |-> 7]) :
        length \in {0, 1, 2, 3, 4, 9}, header \in {0, 3}, n \in 0..MaxValueLen}

RECURSIVE RawPDVsBytes(_)

RawPDVsBytes(raws) ==
    IF raws = <<>> THEN <<>>
    ELSE U32BE(Head(raws).Length) \o Head(raws).Bytes
            \o RawPDVsBytes(Tail(raws))

\* The payload is the declared length of the PDU; the connection delivers
\* it whole or ends up to MaxChop bytes early.
InitPdv ==
    /\ pdvIn \in SeqsUpTo(RawPDVs, MaxRawPDVs) \ {<<>>}
    /\ \E chop \in 0..MaxChop :
        pdvD = NewReader(SubSeq(RawPDVsBytes(pdvIn), 1,
                                Len(RawPDVsBytes(pdvIn)) - chop),
                         Len(RawPDVsBytes(pdvIn)))
    /\ pdvRead = <<>>
    /\ IdleCodec
    /\ IdleDimse
    /\ IdleEcho
    /\ IdleStore
    /\ IdleFind
    /\ IdleSm
    /\ IdleFrag
    /\ IdleCtx
    /\ IdleTs
    /\ IdleAsm
    /\ IdleRel
    /\ IdleItem
    /\ IdleSize

\* One pass of the loop of decodePDataTf; a pass that leaves the reader as
\* it found it is followed by passes that do the same, and is taken once.
PdvReadNext ==
    /\ BytesLeftUntilLimit(pdvD) > 0
    /\ pdvRead # <<>> => pdvRead[Len(pdvRead)].before # pdvD
    /\ pdvRead' = Append(pdvRead,
            [before |-> pdvD] @@ ReadPresentationDataValueItem(pdvD))
    /\ pdvD' = ReadPresentationDataValueItem(pdvD).d
    /\ UNCHANGED <<pdvIn, otherThanPdv>>

NextPdv == PdvReadNext

SpecPdv == InitPdv /\ [][NextPdv]_vars

-----------------------------------------------------------------------------
(* The size scenario: sub-items with names and children of a few bytes and *)
(* of about 2^16 bytes are written.                                        *)

\* The lengths of the names written: short ones, the longest a 16-bit
\* length field can state, and one byte more.
NameLengths == {0, 1, 3, 65535, 65536}

NameOfLen(n) == [i \in 1..n |-> 49]

\* The items that carry one name.
NamedItems ==
    {[kind |-> k, Name |-> NameOfLen(n)] :
        k \in {"ApplicationContext", "AbstractSyntax", "TransferSyntax",
               "ImplementationClassUID", "ImplementationVersionName"},
        n \in NameLengths}

\* Every kind of item with a length computed from its content: the named
\* items, unsupported items, role selections, and user information and
\* presentation context items that hold one named item.
SizedItems ==
    NamedItems
    \cup {[kind |-> "Unsupported", Type |-> 86, Data |-> NameOfLen(n)] :
            n \in NameLengths}
    \cup {[kind |-> "RoleSelection", SOPClassUID |-> NameOfLen(n),
           SCURole |-> 1, SCPRole |-> 0] : n \in NameLengths}
    \cup {[kind |-> "UserInformation", Items |-> <<child>>] :
            child \in {c \in NamedItems :
                        c.kind \in {"ImplementationClassUID",
                                    "ImplementationVersionName"}}}
    \cup {[kind |-> "PresentationContext", Type |-> t, ContextID |-> 1,
           Result |-> 0, Items |-> <<child>>] :
            t \in {ItemTypePresentationContextRequest,
                   ItemTypePresentationContextResponse},
            child \in {c \in NamedItems :
                        c.kind \in {"AbstractSyntax", "TransferSyntax"}}}

InitSize ==
    /\ sizeItem \in SizedItems
    /\ sizeWire = <<>>
    /\ IdleCodec
    /\ IdleDimse
    /\ IdleEcho
    /\ IdleStore
    /\ IdleFind
    /\ IdleSm
    /\ IdleFrag
    /\ IdleCtx
    /\ IdleTs
    /\ IdleAsm
    /\ IdleRel
    /\ IdleItem
    /\ IdlePdv

\* item.Write(e) on an empty writer.
SizeWrite ==
    /\ sizeWire = <<>>
    /\ sizeWire' = SubItem_Write(sizeItem)
    /\ UNCHANGED <<sizeItem, otherThanSize>>

NextSize == SizeWrite

SpecSize == InitSize /\ [][NextSize]_vars

-----------------------------------------------------------------------------
(* The codec scenario: a PDU value is encoded, the bytes may be changed once *)
(* on the way (cut short, or given another length field, type byte or PDV    *)
(* header byte), ReadPDU reads them, and the PDU read is encoded again.      *)

InitCodec ==
    /\ phase = "start"
    /\ pduIn \in PDUValues
    /\ wire = <<>>
    /\ tampered = FALSE
    /\ maxPDUSize = [top |-> 0, hi |-> 0, lo |-> 0]
    /\ res = NoResult
    /\ reenc = NoBytes
    /\ IdleDimse
    /\ IdleEcho
    /\ IdleRest

Encode ==
    /\ phase = "start"
    /\ phase' = "encoded"
    /\ wire' = EncodePDU(pduIn)
    /\ UNCHANGED <<pduIn, tampered, maxPDUSize, res, reenc,
                   dimseVars, echoVars, restVars>>

\* The connection ends early: the header is cut, or the last bytes are lost.
Truncate ==
    /\ phase = "encoded" /\ ~tampered
    /\ \E n \in 0..(Len(wire) - 1) :
          /\ n < 6 \/ n >= Len(wire) - MaxChop
          /\ wire' = SubSeq(wire, 1, n)
    /\ tampered' = TRUE
    /\ UNCHANGED <<phase, pduIn, maxPDUSize, res, reenc,
                   dimseVars, echoVars, restVars>>

\* The peer declares another payload length.
SetLength ==
    /\ phase = "encoded" /\ ~tampered
    /\ \E l \in LengthFields :
          /\ U16BE(l.hi) \o U16BE(l.lo) # SubSeq(wire, 3, 6)
          /\ wire' = SubSeq(wire, 1, 2) \o U16BE(l.hi) \o U16BE(l.lo)
                        \o SubSeq(wire, 7, Len(wire))
    /\ tampered' = TRUE
    /\ UNCHANGED <<phase, pduIn, maxPDUSize, res, reenc,
                   dimseVars, echoVars, restVars>>

\* The peer sends a type byte that names no PDU.
SetType ==
    /\ phase = "encoded" /\ ~tampered
    /\ \E t \in UnknownTypes : wire' = <<t>> \o Tail(wire)
    /\ tampered' = TRUE
    /\ UNCHANGED <<phase, pduIn, maxPDUSize, res, reenc,
                   dimseVars, echoVars, restVars>>

\* The peer sets other bits in the header byte of the first PDV.
SetPDVHeader ==
    /\ phase = "encoded" /\ ~tampered
    /\ wire[1] = TypePDataTf /\ Len(wire) >= 12
    /\ \E b \in OddHeaders : wire' = [wire EXCEPT ![12] = b]
    /\ tampered' = TRUE
    /\ UNCHANGED <<phase, pduIn, maxPDUSize, res, reenc,
                   dimseVars, echoVars, restVars>>

Read ==
    /\ phase = "encoded"
    /\ \E m \in MaxPDUSizes :
          /\ maxPDUSize' = m
          /\ res' = ReadPDU(wire, m)
    /\ phase' = "read"
    /\ UNCHANGED <<pduIn, wire, tampered, reenc,
                   dimseVars, echoVars, restVars>>

Reencode ==
    /\ phase = "read"
    /\ res.st = "ok" /\ res.err = "nil" /\ res.pdu # NilPDU
    /\ reenc' = IF EncodePanics(res.pdu) THEN [st |-> "panic", bytes |-> <<>>]
                ELSE [st |-> "ok", bytes |-> EncodePDU(res.pdu)]
    /\ phase' = "reencoded"
    /\ UNCHANGED <<pduIn, wire, tampered, maxPDUSize, res,
                   dimseVars, echoVars, restVars>>

NextCodec ==
    \/ Encode
    \/ Truncate
    \/ SetLength
    \/ SetType
    \/ SetPDVHeader
    \/ Read
    \/ Reencode

Spec == InitCodec /\ [][NextCodec]_vars

-----------------------------------------------------------------------------
(* Properties of the PDU codec *)

\* C1: round trip.  For every PDU value v of the seven variants, ReadPDU of
\* the bytes of EncodePDU(v), with a maxPDUSize larger than the encoding,
\* returns no error and a PDU equal to v field for field, nested sub-items
\* included.
C1_RoundTrip ==
    ( /\ phase = "read"
      /\ ~tampered
      /\ (maxPDUSize.top > 0 \/ maxPDUSize.hi > 0 \/ maxPDUSize.lo > Len(wire)) )
    => (res.st = "ok" /\ res.err = "nil" /\ res.pdu = pduIn)

\* C2: ReadPDU returns a non-nil error whenever the input ends before the
\* header and the declared payload have been read, whenever the declared
\* payload is shorter than the fixed fields of its type (an A-ASSOCIATE-RJ,
\* A-RELEASE-RQ, A-RELEASE-RP or A-ABORT with length < 4, a P-DATA-TF whose
\* first PDV is cut off inside its 6-byte header), and whenever the type
\* byte is not one of 1..7.
C2_ErrorOnShortOrUnknown ==
    ( /\ phase = "read"
      /\ \/ Len(wire) < 6
         \/ LengthOf(wire).hi > 0
         \/ LengthOf(wire).lo > Len(wire) - 6
         \/ /\ wire[1] \in {TypeAAssociateRj, TypeAReleaseRq, TypeAReleaseRp,
                            TypeAAbort}
            /\ LengthOf(wire).hi = 0 /\ LengthOf(wire).lo < 4
         \/ /\ wire[1] = TypePDataTf
            /\ LengthOf(wire).hi = 0
            /\ LengthOf(wire).lo > 0 /\ LengthOf(wire).lo < 6
         \/ wire[1] \notin TypeAAssociateRq..TypeAAbort )
    => (res.st = "ok" /\ res.err # "nil" /\ res.pdu = NilPDU)

\* C3: if the decoder selected by the PDU type finishes while bytes of the
\* declared payload are still unread, ReadPDU returns a non-nil error and no
\* PDU.
C3_LeftoverIsError ==
    ( /\ phase = "read"
      /\ res.st = "ok"
      /\ res.decoded # NilPDU
      /\ res.left > 0 )
    => (res.err # "nil" /\ res.pdu = NilPDU)

\* C4: the size guard accepts a header exactly when length < 2 * maxPDUSize
\* as mathematical integers, for every maxPDUSize >= 1 and every 32-bit
\* length, also when 2 * maxPDUSize does not fit in 32 bits.  (length <
\* 2 * maxPDUSize says the same as length \div 2 < maxPDUSize, and
\* length \div 2 is below 2^31.)
C4_SizeGuardIsMathematical ==
    ( /\ phase = "read"
      /\ Len(wire) >= 6 )
    => LET length == LengthOf(wire)
           half == (length.hi \div 2) * 65536
                       + (length.hi % 2) * 32768 + length.lo \div 2
           accepts == \/ maxPDUSize.top > 0
                      \/ maxPDUSize.hi >= 32768
                      \/ half < maxPDUSize.hi * 65536 + maxPDUSize.lo
       IN  /\ res.guarded <=> ~accepts
           /\ res.guarded => (res.err # "nil" /\ res.pdu = NilPDU)

\* C5: when the sub-items of an A-ASSOCIATE PDU or of a UserInformation
\* item are decoded, a sub-item of a type that is not one of the eleven
\* recognised ones is kept in the item list as an opaque value with its type
\* byte and exactly its `length` value bytes, decoding goes on with the next
\* sub-item, and encoding the PDU again emits the item's bytes unchanged.
C5_UnknownSubItemKept ==
    LET Unknown(a) == a.kind = "Unsupported"
        Kept(a, b) ==
            CASE Unknown(a) -> b = a
              [] a.kind = "UserInformation" ->
                    /\ b.kind = "UserInformation"
                    /\ Len(b.Items) = Len(a.Items)
                    /\ \A j \in 1..Len(a.Items) :
                          Unknown(a.Items[j]) => b.Items[j] = a.Items[j]
              [] OTHER -> TRUE
        HasUnknown(items) ==
            \E i \in 1..Len(items) :
                \/ Unknown(items[i])
                \/ /\ items[i].kind = "UserInformation"
                   /\ \E j \in 1..Len(items[i].Items) :
                          Unknown(items[i].Items[j])
        unknownBytes == SubItemUnsupported_Write(UnknownItem)
    IN  ( /\ phase \in {"read", "reencoded"}
          /\ ~tampered
          /\ ~res.guarded
          /\ pduIn.kind = "AAssociate"
          /\ HasUnknown(pduIn.Items) )
        => /\ res.st = "ok" /\ res.err = "nil"
           /\ res.pdu.kind = "AAssociate"
           /\ Len(res.pdu.Items) = Len(pduIn.Items)
           /\ \A i \in 1..Len(pduIn.Items) :
                  Kept(pduIn.Items[i], res.pdu.Items[i])
           /\ phase = "reencoded" =>
                  /\ reenc.st = "ok"
                  /\ \E k \in 0..(Len(reenc.bytes) - Len(unknownBytes)) :
                         SubSeq(reenc.bytes, k + 1, k + Len(unknownBytes))
                            = unknownBytes

\* C6: framing.  For every byte sequence b that is one valid PDU, ReadPDU(b)
\* succeeds and EncodePDU of the PDU read equals b byte for byte.  (The
\* bytes EncodePDU wrote are such a b: the titles are padded to 16 bytes.)
C6_Framing ==
    ( /\ phase \in {"read", "reencoded"}
      /\ ~tampered
      /\ ~res.guarded )
    => /\ res.st = "ok" /\ res.err = "nil" /\ res.pdu # NilPDU
       /\ phase = "reencoded" => (reenc.st = "ok" /\ reenc.bytes = wire)

\* C7: the payload of an encoded A-ASSOCIATE PDU with non-empty titles has
\* a fixed part of 68 bytes, the sub-items follow it; the called AE title
\* holds bytes 4..19 and the calling AE title bytes 20..35 (counted from 0),
\* and a field is the title followed by spaces when the title has at most
\* 16 bytes.
C7_AETitleFields ==
    ( /\ phase # "start"
      /\ ~tampered
      /\ pduIn.kind = "AAssociate" )
    => LET p == SubSeq(wire, 7, Len(wire))
           Padded(t) == t \o [i \in 1..(16 - Len(t)) |-> 32]
       IN  /\ Len(p) >= 68
           /\ SubSeq(p, 69, Len(p)) = WriteItems(pduIn.Items)
           /\ SubSeq(p, 37, 68) = [i \in 1..32 |-> 0]
           /\ Len(pduIn.CalledAETitle) <= 16 =>
                  SubSeq(p, 5, 20) = Padded(pduIn.CalledAETitle)
           /\ Len(pduIn.CallingAETitle) <= 16 =>
                  SubSeq(p, 21, 36) = Padded(pduIn.CallingAETitle)

\* An A-ASSOCIATE PDU with a called AE title of 5 bytes and sub-items has
\* been encoded.
C7_Witness ==
    /\ phase = "encoded"
    /\ ~tampered
    /\ pduIn.kind = "AAssociate"
    /\ Len(pduIn.CalledAETitle) = 5
    /\ Len(pduIn.CallingAETitle) = 16
    /\ pduIn.Items # <<>>

\* C8: a PDV is written as a big-endian u32 length equal to 2 + len(Value),
\* the context ID byte, one header byte whose bit 0 is set iff Command and
\* whose bit 1 is set iff Last with every other bit 0, then the Value
\* bytes; the PDVs of a P-DATA-TF follow one another.  Reading a PDV yields
\* Command = bit 0, Last = bit 1, whatever the other bits are, and a Value
\* of exactly length - 2 bytes.
C8_PDVFormat ==
    LET p == SubSeq(wire, 7, Len(wire))
        RECURSIVE Offset(_, _)
        Offset(items, i) ==
            IF i = 1 THEN 0
            ELSE Offset(items, i - 1) + 6 + Len(items[i - 1].Value)
        At(o, v, exact) ==
            /\ ((p[o + 1] * 256 + p[o + 2]) * 256 + p[o + 3]) * 256 + p[o + 4]
                    = 2 + Len(v.Value)
            /\ p[o + 5] = v.ContextID
            /\ v.Command <=> p[o + 6] % 2 = 1
            /\ v.Last <=> (p[o + 6] \div 2) % 2 = 1
            /\ exact => p[o + 6] \div 4 = 0
            /\ SubSeq(p, o + 7, o + 6 + Len(v.Value)) = v.Value
        Layout(items, exact) ==
            /\ Offset(items, Len(items) + 1) = Len(p)
            /\ \A i \in 1..Len(items) : At(Offset(items, i), items[i], exact)
    IN  /\ (phase # "start" /\ ~tampered /\ pduIn.kind = "PDataTf")
               => Layout(pduIn.Items, TRUE)
        /\ ( /\ phase = "read"
             /\ Len(wire) >= 6
             /\ wire[1] = TypePDataTf
             /\ LengthOf(wire).hi = 0 /\ LengthOf(wire).lo = Len(wire) - 6
             /\ ~res.guarded )
               => /\ res.st = "ok" /\ res.err = "nil"
                  /\ res.pdu.kind = "PDataTf"
                  /\ Layout(res.pdu.Items, FALSE)

\* A P-DATA-TF of two PDVs has been read whose first PDV carries a value and
\* a header byte with all the bits set but bit 1.
C8_Witness ==
    /\ phase = "read"
    /\ tampered
    /\ Len(wire) >= 12
    /\ wire[1] = TypePDataTf
    /\ wire[12] = 253
    /\ res.pdu.kind = "PDataTf"
    /\ Len(res.pdu.Items) = 2
    /\ res.pdu.Items[1].Value # <<>>
    /\ res.pdu.Items[1].Command /\ ~res.pdu.Items[1].Last

-----------------------------------------------------------------------------
(* Properties of the DIMSE codec and of the C-ECHO exchange *)

C10_EchoRunsHandlerOnce ==
    /\ suState = "echoing" => nEchoRequests \in {oldCount, oldCount + 1}
    /\ (suState = "ready" /\ calls > 0) => nEchoRequests = oldCount + 1
    /\ suState \in {"ready", "releasing", "released"} =>
            (nEchoRequests = calls /\ Len(cechoErr) = calls)
    /\ \A i \in 1..Len(cechoErr) :
            handlerStatus[i] = Success => cechoErr[i] = "nil"

\* Two calls of CEcho() have returned, the second after a handler run that
\* returned success.
C10_Witness ==
    /\ suState = "ready"
    /\ calls = 2
    /\ nEchoRequests = 2
    /\ handlerStatus[2] = Success
    /\ cechoErr[2] = "nil"

-----------------------------------------------------------------------------
(* Properties of the C-STORE exchange *)

\* C11: a C-STORE issued through runCStoreOnAssociation returns nil exactly
\* when the C-STORE response it received on the upcall channel has status 0;
\* for every non-zero status the provider's handler returned it returns an
\* error whose message carries the response's status word and error comment.
C11_CStoreStatus ==
    /\ (cstoreErr.returned /\ cstoreErr.err = "nil") =>
            (received = 1 /\ cstoreStatus.Status = 0)
    /\ (cstoreErr.returned /\ received = 1 /\ cstoreStatus.Status = 0) =>
            cstoreErr.err = "nil"
    /\ (cstoreErr.returned /\ received = 1 /\ cstoreStatus.Status # 0) =>
            /\ cstoreErr.err # "nil"
            /\ cstoreErr.resp.Status = cstoreStatus

\* The handler returned StatusNotAuthorized with the comment "Foohah" and
\* CStore has returned the error that carries both.
C11_Witness ==
    /\ cstoreErr.returned
    /\ received = 1
    /\ cstoreStatus = [Status |-> 292, ErrorComment |-> "Foohah"]
    /\ cstoreErr.err = "failed"
    /\ cstoreErr.resp.Status.ErrorComment = "Foohah"

\* C12: if the connection is cut on the client's first send after its state
\* machine has entered sta06, the client's CStore returns a non-nil error
\* whose message contains "Connection failed"; it neither returns success
\* nor blocks forever.
C12_CutAfterSta06 ==
    /\ (cstoreErr.returned /\ faults.connected /\ smTaken >= 1
            /\ downcallCh[1].event = "evt09") =>
            cstoreErr.err = "Connection failed"
    /\ (suPc = "waiting" /\ faults.connected /\ smTaken >= 1) =>
            ENABLED CStoreReturn

\* C13: when Connect is given an address to which no TCP connection can be
\* established, a later CStore returns a non-nil error whose message
\* contains "Connection failed", without blocking and without sending
\* anything, and the following Release returns.
C13_NonexistentServer ==
    /\ (~serverUp /\ suPc = "connected") => ENABLED CStoreCall
    /\ (~serverUp /\ cstoreErr.returned) =>
            /\ cstoreErr.err = "Connection failed"
            /\ socket = <<>>
            /\ downcallCh = <<>>
    /\ (~serverUp /\ suPc = "stored") => ENABLED StoreRelease
    /\ ~serverUp => suPc # "releasing"

\* Connect failed, CStore returned its error and Release has returned.
C13_Witness ==
    /\ ~serverUp
    /\ cstoreErr.returned
    /\ cstoreErr.err = "Connection failed"
    /\ suPc = "released"

\* C15: calling Release() on a ServiceUser on which Connect() was never
\* called returns without blocking and sends no PDU.  (Connect() leaves the
\* initial status or starts the state machine, so a ServiceUser in its
\* initial status whose state machine is in sta01 was never connected.)
C15_ReleaseWithoutConnect ==
    /\ suPc = "new" => ENABLED StoreRelease
    /\ (suStatus = "serviceUserInitial" /\ userSta = "sta01") =>
            /\ suPc \in {"new", "released"}
            /\ socket = <<>>
            /\ downcallCh = <<>>

\* Release() has returned on a ServiceUser that never connected.
C15_Witness ==
    /\ suPc = "released"
    /\ suStatus = "serviceUserInitial"
    /\ userSta = "sta01"

\* C16: whenever runCStoreOnAssociation returns an error because the data
\* set lacks MediaStorageSOPInstanceUID or MediaStorageSOPClassUID, or
\* because its SOP class has no negotiated presentation context, it has
\* sent no event on the downcall channel and received nothing from the
\* upcall channel, and nothing of the C-STORE has reached the connection.
C16_EarlyErrorsTouchNothing ==
    (cstoreErr.returned
        /\ cstoreErr.err \in {"data lacks SOPInstanceUID",
                              "data lacks MediaStorageSOPClassUID",
                              "SOP class not negotiated"}) =>
        /\ \A i \in 1..Len(downcallCh) : downcallCh[i].event # "evt09"
        /\ received = 0
        /\ upcallCh.events = <<>>
        /\ \A i \in 1..Len(socket) : socket[i].kind # "PDataTf"
        /\ cstoreData = <<>>

\* CStore has returned the error of a data set that has both UIDs but whose
\* SOP class has no accepted presentation context, on an active association.
C16_Witness ==
    /\ cstoreErr.returned
    /\ cstoreErr.err = "SOP class not negotiated"
    /\ ~FindElementByTag(storeDs, TagMediaStorageSOPClassUID).err
    /\ ~FindElementByTag(storeDs, TagMediaStorageSOPInstanceUID).err
    /\ \E i \in 1..Len(cm) : cm[i].accepted

\* C17: in every C-STORE sent by runCStoreOnAssociation the data-set bytes
\* handed to the state machine are the data set encoded in the transfer
\* syntax negotiated for the presentation context of its SOP class, and the
\* command stream is Implicit-VR Little-Endian.
C17_DataInNegotiatedSyntax ==
    /\ \A i \in 1..Len(downcallCh) :
        downcallCh[i].event = "evt09" =>
            LET ts == ParseTransferSyntaxUID(
                        lookupByAbstractSyntaxUID(
                            cm, downcallCh[i].abstractSyntaxName)
                                .context.transferSyntaxUID)
            IN  downcallCh[i].data =
                    WriteElements(storeDs, ts.bo, ts.implicit = "ImplicitVR")
    /\ \A i \in 1..Len(socket) :
        socket[i].kind = "PDataTf" =>
            socket[i].command = EncodeMessage(socket[i].commandValue)

-----------------------------------------------------------------------------
(* Properties of the C-FIND exchange *)

\* C14: for a C-FIND whose handler emits results r1..rn on its result
\* channel and then closes it, the channel CFind returned delivers exactly
\* r1..rn in the order emitted, each with no error, and is closed after the
\* terminating success status: no result is lost, duplicated or reordered.
C14_FindStreamsInOrder ==
    /\ Len(findStream.events) <= Len(findEmitted)
    /\ \A i \in 1..Len(findStream.events) :
            /\ findStream.events[i] = findEmitted[i]
            /\ findStream.events[i].Err = "nil"
    /\ \A i \in 1..Len(namesFound) :
            namesFound[i] = findEmitted[i].Elements[1].value
    /\ findStream.closed =>
            /\ findPc = "done"
            /\ findLeft = <<>>
            /\ findCh.closed
            /\ findStream.events = findEmitted

\* The handler emitted "johndoe" and "johndoe2" and closed its channel; the
\* client has collected both names and its channel is closed.
C14_Witness ==
    /\ findStream.closed
    /\ Len(findEmitted) = 2
    /\ namesFound = <<"johndoe", "johndoe2">>

-----------------------------------------------------------------------------
(* Properties of the association state machine *)

\* C18: the association state machine is total: in each of the 13 states
\* each event can be handled, and the table gives it either one defined
\* action with a next state among the 13, or the protocol-violation
\* outcome, in which the machine sends A-ABORT (unexpected PDU) and moves
\* to sta13.
C18_StateMachineTotal ==
    /\ smCurrent \in stateTypes
    /\ \A event \in eventTypes :
        /\ ActionOutcomes(findAction(smCurrent, event)) # {}
        /\ Cardinality({t \in stateTransitions :
                            t[1] = smCurrent /\ t[2] = event}) <= 1
    /\ ENABLED runOneStep
    /\ smAction = "ProtocolViolation" =>
            /\ smSent = "A-ABORT(unexpected-PDU)"
            /\ smCurrent = "sta13"
            /\ \A t \in stateTransitions : ~(t[1] = smFrom /\ t[2] = smEvent)
    /\ (smAction \notin {"none", "ProtocolViolation"}) =>
            <<smFrom, smEvent, smAction>> \in stateTransitions

\* The machine has handled a P-DATA request in sta07, a pair the table does
\* not hold, as a protocol violation.
C18_Witness ==
    /\ smFrom = "sta07"
    /\ smEvent = "evt09"
    /\ smAction = "ProtocolViolation"
    /\ smCurrent = "sta13"

-----------------------------------------------------------------------------
(* Properties of outbound fragmentation *)

-----------------------------------------------------------------------------
(* Properties of presentation-context negotiation *)

\* C20: for every list of abstract syntaxes a requester offers in one
\* association, the context IDs it assigns are all odd, all in 1..255 and
\* pairwise distinct, and the acceptor answers each context with the same
\* ID.
C20_ContextIDs ==
    /\ \A i \in 1..Len(ctxAssigned) :
        /\ ctxAssigned[i] % 2 = 1
        /\ ctxAssigned[i] \in 1..255
        /\ \A j \in 1..Len(ctxAssigned) :
            i # j => ctxAssigned[i] # ctxAssigned[j]
    /\ \A i \in 1..Len(ctxAnswered) : ctxAnswered[i] = ctxAssigned[i]

-----------------------------------------------------------------------------
(* Properties of the transfer syntax helpers *)

\* C21: CanonicalTransferSyntaxUID returns its argument for the four
\* standard transfer syntaxes, Explicit VR Little Endian for every other UID
\* the dictionary holds as a transfer syntax and an error for a UID the
\* dictionary does not hold or holds as something else; applied to its own
\* successful result it returns that result again.
C21_Canonical ==
    /\ \A i \in 1..Len(tsCanonical) :
        /\ (\E k \in 1..4 : tsOffered[i] = StandardTransferSyntaxes[k]) =>
                tsCanonical[i] = [uid |-> tsOffered[i], err |-> "nil"]
        /\ (/\ \A k \in 1..4 : tsOffered[i] # StandardTransferSyntaxes[k]
            /\ tsOffered[i] \in DOMAIN UIDDictionary
            /\ UIDDictionary[tsOffered[i]] = "TypeTransferSyntax") =>
                tsCanonical[i] = [uid |-> "ExplicitVRLittleEndian",
                                  err |-> "nil"]
        /\ (tsOffered[i] \notin DOMAIN UIDDictionary
                \/ UIDDictionary[tsOffered[i]] # "TypeTransferSyntax") =>
                tsCanonical[i].err # "nil"
    /\ \A i \in 1..Len(tsAgain) :
        tsCanonical[i].err = "nil" => tsAgain[i] = tsCanonical[i]

\* A compressed transfer syntax and a SOP class have been canonicalised,
\* and the result of the first canonicalised again.
C21_Witness ==
    /\ tsOffered = <<"JPEGBaseline8Bit", "Verification">>
    /\ Len(tsAgain) = 2
    /\ tsAgain[1].uid = "ExplicitVRLittleEndian"
    /\ tsCanonical[2].err = "is not a transfer syntax"

-----------------------------------------------------------------------------
(* Properties of reassembly *)

\* C22: in sta06 the machine keeps one command buffer and one data buffer
\* per context ID; each PDV is appended to the buffer of its own context ID
\* and kind only, a PDV with last=1 delivers the buffer's contents upward
\* and empties it, and for every interleaving of the PDVs of different
\* context IDs and kinds the bytes delivered for a stream are that stream's
\* PDV values in arrival order.
C22_Reassembly ==
    LET RECURSIVE Expect(_, _)
        \* The messages and the buffer left after the PDVs of one stream.
        Expect(pdvs, st) ==
            IF pdvs = <<>> THEN st
            ELSE Expect(Tail(pdvs),
                    IF Head(pdvs).Last
                    THEN [up |-> Append(st.up, st.buf \o Head(pdvs).Value),
                          buf |-> <<>>]
                    ELSE [up |-> st.up, buf |-> st.buf \o Head(pdvs).Value])
        SentOn(id, command) ==
            SelectSeq(asmSent,
                LAMBDA p : p.ContextID = id /\ p.Command = command)
        DeliveredOn(id, command) ==
            SelectSeq(fragUp,
                LAMBDA u : u.contextID = id /\ u.command = command)
        Expected(id, command) ==
            Expect(SentOn(id, command), [up |-> <<>>, buf |-> <<>>])
    IN  /\ fragPc # "aborted"
        /\ fragSeen = asmSent
        /\ \A id \in {1, 3} : \A command \in BOOLEAN :
            /\ Len(DeliveredOn(id, command)) = Len(Expected(id, command).up)
            /\ \A i \in 1..Len(DeliveredOn(id, command)) :
                DeliveredOn(id, command)[i].bytes
                    = Expected(id, command).up[i]
            /\ (IF command THEN fragBuf[id].command ELSE fragBuf[id].data)
                    = Expected(id, command).buf

\* The command of context 1 arrived in two PDVs with a PDV of context 3
\* between them, and was delivered whole.
C22_Witness ==
    /\ \A stream \in AsmStreams : asmPending[stream] = <<>>
    /\ \E i \in 1..Len(asmSent) : \E j \in 1..Len(asmSent) :
        /\ i + 1 < j
        /\ asmSent[i].ContextID = 1 /\ asmSent[i].Command /\ ~asmSent[i].Last
        /\ asmSent[i + 1].ContextID = 3
        /\ asmSent[j].ContextID = 1 /\ asmSent[j].Command /\ asmSent[j].Last
    /\ \E k \in 1..Len(fragUp) :
        /\ fragUp[k].contextID = 1
        /\ fragUp[k].command
        /\ fragUp[k].bytes = <<11, 21, 22>>

-----------------------------------------------------------------------------
(* Properties of the ARTIM timer *)

-----------------------------------------------------------------------------
(* Properties of the release of an association *)

-----------------------------------------------------------------------------
(* Properties of the end of an association *)

-----------------------------------------------------------------------------
(* Properties of the sub-item scenario *)

\* C26: decodeSubItem leaves the reader exactly 4 + length bytes after the
\* start of a sub-item with header {type, 0, length}, whatever the type and
\* whatever the size the type expects, so that the next sub-item is read
\* from its first byte.
C26_SubItemAdvance ==
    itemOut # <<>> =>
        /\ itemOut[1].d.st = "ok"
        /\ itemOut[1].d.pos = 4 + itemIn[1].Length

\* C27: ReadPDU on a well-framed A-ASSOCIATE-RQ with a malformed sub-item
\* returns the PDU with a nil error; the PDU has an item for every sub-item
\* sent, and the item in the place of a malformed one is a placeholder.
C27_MalformedSubItemPlaceholder ==
    (itemRes # <<>> /\ \E i \in 1..Len(itemIn) : itemIn[i] \in MalformedRawItems)
        => /\ itemRes[1].st = "ok"
           /\ itemRes[1].err = "nil"
           /\ itemRes[1].pdu # NilPDU
           /\ Len(itemRes[1].pdu.Items) = Len(itemIn)
           /\ \A i \in 1..Len(itemIn) :
                itemIn[i] \in MalformedRawItems =>
                    itemRes[1].pdu.Items[i].kind = "Unsupported"

\* C28: decoding an asynchronous-operations-window sub-item whose value
\* bytes are the big-endian u16 values (a, b) gives MaxOpsInvoked = a and
\* MaxOpsPerformed = b, and consumes the 4 value bytes.
C28_AsyncOpsWindowBothValues ==
    (/\ itemOut # <<>>
     /\ itemIn[1].Type = ItemTypeAsynchronousOperationsWindow
     /\ itemIn[1].Length = 4)
        => /\ itemOut[1].item.kind = "AsynchronousOperationsWindow"
           /\ U16BE(itemOut[1].item.MaxOpsInvoked)
                = SubSeq(itemIn[1].Value, 1, 2)
           /\ U16BE(itemOut[1].item.MaxOpsPerformed)
                = SubSeq(itemIn[1].Value, 3, 4)
           /\ itemOut[1].d.pos = 4 + 4

\* C29: in the encoding of a presentation context item of a response, the
\* byte two positions after the context ID is the item's Result, and the
\* peer that decodes the encoding reads that Result.
C29_ResultOnTheWire ==
    itemWire # <<>> =>
        /\ itemWire[1].bytes[5] = itemWire[1].v.ContextID
        /\ itemWire[1].bytes[7] = itemWire[1].v.Result
        /\ itemWire[1].back.kind = "PresentationContext"
        /\ itemWire[1].back.Result = itemWire[1].v.Result

\* C30: ReadPDU does not return as a normal A-ASSOCIATE PDU one that holds
\* a presentation context item with an even context ID.
C30_EvenContextIDRejected ==
    (/\ itemRes # <<>>
     /\ \E i \in 1..Len(itemIn) :
            /\ itemIn[i].Type \in {ItemTypePresentationContextRequest,
                                   ItemTypePresentationContextResponse}
            /\ itemIn[i].Value[1] % 2 = 0)
        => ~(/\ itemRes[1].st = "ok"
             /\ itemRes[1].err = "nil"
             /\ itemRes[1].pdu # NilPDU)

\* C31: ParseTransferSyntaxUID returns for every UID; it returns an error
\* with (nil, UnknownVR) exactly when CanonicalTransferSyntaxUID fails, and
\* otherwise (LittleEndian, ImplicitVR) for implicit VR little endian,
\* (BigEndian, ExplicitVR) for explicit VR big endian and (LittleEndian,
\* ExplicitVR) for every other transfer syntax.
C31_ParseNeverPanics ==
    \A i \in 1..Len(tsParsed) :
        /\ tsParsed[i].st = "ok"
        /\ (tsParsed[i].err # "nil")
                = (CanonicalTransferSyntaxUID(tsOffered[i]).err # "nil")
        /\ tsParsed[i].err # "nil" =>
                tsParsed[i].bo = "nil" /\ tsParsed[i].implicit = "UnknownVR"
        /\ tsParsed[i].err = "nil" =>
                <<tsParsed[i].bo, tsParsed[i].implicit>> =
                    IF tsOffered[i] = "ImplicitVRLittleEndian"
                    THEN <<"LittleEndian", "ImplicitVR">>
                    ELSE IF tsOffered[i] = "ExplicitVRBigEndian"
                    THEN <<"BigEndian", "ExplicitVR">>
                    ELSE <<"LittleEndian", "ExplicitVR">>

\* The deflated transfer syntax and a UID the dictionary does not hold have
\* been parsed.
C31_Witness ==
    /\ tsOffered = <<"DeflatedExplicitVRLittleEndian", "1.2.3">>
    /\ Len(tsParsed) = 2
    /\ tsParsed[1].bo = "LittleEndian"
    /\ tsParsed[2].err = "unknown UID"

\* C32: ReadPDU returns on every input, a PDU or an error: it neither
\* panics nor stays for ever in a loop that runs while bytes are left until
\* the limit, also when the input ends before the declared payload length.
C32_ReadPDUTerminates ==
    phase = "read" => res.st \notin {"panic", "hang"}

-----------------------------------------------------------------------------
(* Properties of the PDV scenario *)

\* C33: for every PDV read from a P-DATA-TF payload, also one whose length
\* field is 0 or 1 or could not be read, the count of value bytes the
\* decoder asks for is at most the bytes left in the PDU; it is never
\* length - 2 wrapped around modulo 2^32.
C33_PDVLengthWithinPDU ==
    \A i \in 1..Len(pdvRead) :
        /\ pdvRead[i].asked.hi = 0
        /\ pdvRead[i].asked.lo <= pdvRead[i].room

-----------------------------------------------------------------------------
(* Properties of the size scenario *)

\* C34: the 16-bit length field in the header of every sub-item written is
\* the count of bytes written after the header, for names and children of
\* any size, also above 65535 bytes; it is never that count modulo 2^16.
C34_LengthFieldIsSize ==
    sizeWire # <<>> =>
        sizeWire[3] * 256 + sizeWire[4] = Len(sizeWire) - 4

=============================================================================
